---------------------------- MODULE Spec2Model ----------------------------
(***************************************************************************)
(* Saree CRM (saree_crm_flask_app.py): three SQLite tables (Customer,      *)
(* Order, FollowUp) behind Flask handlers, one request at a time.          *)
(*                                                                         *)
(* Representation.                                                         *)
(*   - A Python str is a sequence of one-character strings, so that        *)
(*     lstrip, int(), the f-string formatting of the identifier generator  *)
(*     and datetime.fromisoformat are computed, not assumed.               *)
(*   - An optional value (request.form.get, a nullable column) is None,    *)
(*     the empty sequence, or Some(v), the one-element sequence <<v>>.     *)
(*   - A date is its day number counted from 2024-01-01 (day 0).           *)
(*   - A table is the set of its rows; the column id is SQLite's rowid.    *)
(***************************************************************************)
EXTENDS Integers, Sequences, FiniteSets, TLC

VARIABLES
    customers,   \* rows of table Customer
    orders,      \* rows of table Order
    followups,   \* rows of table FollowUp
    phase,       \* "boot": the process runs __main__; "serving": it serves requests
    client,      \* the page the browser session posts its forms from
    req,         \* the last request: [handler, id / form]
    resp         \* the answer to it: [status, branch, ...]

vars == <<customers, orders, followups, phase, client, req, resp>>

---------------------------------------------------------------------------
(* Optional values and Python truthiness *)

None == <<>>
Some(v) == <<v>>
Val(o) == o[1]

\* Python's `x or d` for x an optional str: None and "" are falsy.
OrElse(o, d) == IF o = None \/ o = Some(<<>>) THEN d ELSE Val(o)

\* truthiness of an optional str
Truthy(o) == o # None /\ o # Some(<<>>)

---------------------------------------------------------------------------
(* Strings: lstrip, int(), format *)

DigitChars == <<"0", "1", "2", "3", "4", "5", "6", "7", "8", "9">>

IsDigit(c) == c \in {"0", "1", "2", "3", "4", "5", "6", "7", "8", "9"}

DigitValues == [c \in {DigitChars[i] : i \in 1..10} |->
                    (CHOOSE i \in 1..10 : DigitChars[i] = c) - 1]

DigitVal(c) == DigitValues[c]

AllDigits(s) == \A i \in 1..Len(s) : IsDigit(s[i])

RECURSIVE DigitsVal(_)
DigitsVal(s) ==
    IF s = <<>> THEN 0
    ELSE 10 * DigitsVal(SubSeq(s, 1, Len(s) - 1)) + DigitVal(s[Len(s)])

\* str.lstrip(ch): drops every leading occurrence of ch
RECURSIVE lstrip(_, _)
lstrip(s, ch) ==
    IF s # <<>> /\ Head(s) = ch THEN lstrip(Tail(s), ch) ELSE s

\* int(s) succeeds on an optional sign followed by at least one digit
\* (ValueError otherwise).
IntOk(s) ==
    LET body == IF s # <<>> /\ Head(s) \in {"-", "+"} THEN Tail(s) ELSE s
    IN  body # <<>> /\ AllDigits(body)

IntOf(s) ==
    IF Head(s) = "-" THEN 0 - DigitsVal(Tail(s))
    ELSE IF Head(s) = "+" THEN DigitsVal(Tail(s))
    ELSE DigitsVal(s)

RECURSIVE NatStr(_)
NatStr(n) ==
    IF n < 10 THEN <<DigitChars[n + 1]>>
    ELSE NatStr(n \div 10) \o <<DigitChars[(n % 10) + 1]>>

RECURSIVE ZeroPad(_, _)
ZeroPad(s, w) == IF Len(s) >= w THEN s ELSE ZeroPad(<<"0">> \o s, w)

\* format(n, "03d"): minimum width 3 counting the sign, zero-filled after it
Format03d(n) ==
    IF n < 0 THEN <<"-">> \o ZeroPad(NatStr(0 - n), 2)
    ELSE ZeroPad(NatStr(n), 3)

Max(S) == CHOOSE x \in S : \A y \in S : y <= x

---------------------------------------------------------------------------
(* Amounts: Python int and SQLite INTEGER values, written as str(n)        *)
(* (a "-" for a negative number, then the decimal digits without leading   *)
(* zeros), so that the 64 bits of the column and the 53 bits of a float    *)
(* are the program's and not the model checker's.                          *)

Zero == <<"0">>

Digit(n) == DigitChars[n + 1]

Front(s) == SubSeq(s, 1, Len(s) - 1)

RECURSIVE StripZeros(_)
StripZeros(d) ==
    IF d = <<>> THEN Zero
    ELSE IF Len(d) > 1 /\ Head(d) = "0" THEN StripZeros(Tail(d)) ELSE d

IsNeg(x) == Head(x) = "-"

Mag(x) == IF IsNeg(x) THEN Tail(x) ELSE x

MkInt(neg, mag) == IF neg /\ mag # Zero THEN <<"-">> \o mag ELSE mag

\* str(n) of a natural number of the model checker
IntText(n) == NatStr(n)

\* int(s) for a text IntOk accepts
PyInt(s) ==
    IF Head(s) = "-" THEN MkInt(TRUE, StripZeros(Tail(s)))
    ELSE IF Head(s) = "+" THEN StripZeros(Tail(s))
    ELSE StripZeros(s)

MagLess(a, b) ==
    \/ Len(a) < Len(b)
    \/ /\ Len(a) = Len(b)
       /\ \E i \in 1..Len(a) :
              /\ DigitVal(a[i]) < DigitVal(b[i])
              /\ \A j \in 1..(i - 1) : a[j] = b[j]

RECURSIVE AddDigits(_, _, _)
AddDigits(a, b, carry) ==
    IF a = <<>> /\ b = <<>>
    THEN IF carry = 0 THEN <<>> ELSE <<Digit(carry)>>
    ELSE LET x == IF a = <<>> THEN 0 ELSE DigitVal(a[Len(a)])
             y == IF b = <<>> THEN 0 ELSE DigitVal(b[Len(b)])
             t == x + y + carry
         IN  AddDigits(IF a = <<>> THEN a ELSE Front(a),
                       IF b = <<>> THEN b ELSE Front(b), t \div 10)
                 \o <<Digit(t % 10)>>

MagAdd(a, b) == AddDigits(a, b, 0)

\* a - b for a >= b
RECURSIVE SubDigits(_, _, _)
SubDigits(a, b, borrow) ==
    IF a = <<>> THEN <<>>
    ELSE LET x == DigitVal(a[Len(a)])
             y == (IF b = <<>> THEN 0 ELSE DigitVal(b[Len(b)])) + borrow
         IN  SubDigits(Front(a), IF b = <<>> THEN b ELSE Front(b),
                       IF x >= y THEN 0 ELSE 1)
                 \o <<Digit(IF x >= y THEN x - y ELSE x + 10 - y)>>

MagSub(a, b) == StripZeros(SubDigits(a, b, 0))

\* a * k for a natural number k of the model checker
RECURSIVE MulDigits(_, _, _)
MulDigits(a, k, carry) ==
    IF a = <<>> THEN (IF carry = 0 THEN <<>> ELSE NatStr(carry))
    ELSE LET t == DigitVal(a[Len(a)]) * k + carry
         IN  MulDigits(Front(a), k, t \div 10) \o <<Digit(t % 10)>>

MagMul(a, k) == StripZeros(MulDigits(a, k, 0))

\* a \div k and a % k for a positive number k of the model checker
RECURSIVE DivDigits(_, _, _)
DivDigits(a, k, rem) ==
    IF a = <<>> THEN <<>>
    ELSE LET t == 10 * rem + DigitVal(Head(a))
         IN  <<Digit(t \div k)>> \o DivDigits(Tail(a), k, t % k)

MagDiv(a, k) == StripZeros(DivDigits(a, k, 0))

RECURSIVE MagMod(_, _, _)
MagMod(a, k, rem) ==
    IF a = <<>> THEN rem ELSE MagMod(Tail(a), k, (10 * rem + DigitVal(Head(a))) % k)

IntAdd(x, y) ==
    IF IsNeg(x) = IsNeg(y) THEN MkInt(IsNeg(x), MagAdd(Mag(x), Mag(y)))
    ELSE IF MagLess(Mag(x), Mag(y)) THEN MkInt(IsNeg(y), MagSub(Mag(y), Mag(x)))
    ELSE MkInt(IsNeg(x), MagSub(Mag(x), Mag(y)))

IntLess(x, y) ==
    IF IsNeg(x) THEN ~IsNeg(y) \/ MagLess(Mag(y), Mag(x))
    ELSE ~IsNeg(y) /\ MagLess(Mag(x), Mag(y))

IntLeq(x, y) == x = y \/ IntLess(x, y)

\* SQLite stores an INTEGER in 64 bits: -2^63 .. 2^63 - 1
Int64Max ==
    <<"9", "2", "2", "3", "3", "7", "2", "0", "3", "6",
      "8", "5", "4", "7", "7", "5", "8", "0", "7">>

FitsInt64(x) ==
    IF IsNeg(x) THEN ~MagLess(MagAdd(Int64Max, <<"1">>), Mag(x))
    ELSE ~MagLess(Int64Max, Mag(x))

\* 2^53: up to it every integer is a float
TwoTo53 ==
    <<"9", "0", "0", "7", "1", "9", "9", "2", "5", "4",
      "7", "4", "0", "9", "9", "2">>

RECURSIVE TwoTo(_)
TwoTo(k) == IF k = 0 THEN 1 ELSE 2 * TwoTo(k - 1)

\* the e with k * 2^e <= a < k * 2^(e + 1), for a >= p = k * 2^e0, from e0
RECURSIVE BinaryExponent(_, _, _)
BinaryExponent(a, p, e) ==
    IF MagLess(a, MagAdd(p, p)) THEN e ELSE BinaryExponent(a, MagAdd(p, p), e + 1)

RECURSIVE Doubled(_, _)
Doubled(a, j) == IF j = 0 THEN a ELSE Doubled(MagAdd(a, a), j - 1)

RECURSIVE Halved(_, _)
Halved(a, j) == IF j = 0 THEN a ELSE Halved(MagDiv(a, 2), j - 1)

\* a / k rounded to the nearest integer, a tie to the even one
RoundHalfEven(a, k) ==
    LET q == MagDiv(a, k)
        r == MagMod(a, k, 0)
    IN  IF 2 * r > k \/ (2 * r = k /\ DigitVal(q[Len(q)]) % 2 = 1)
        THEN MagAdd(q, <<"1">>) ELSE q

\* int(a / n) for a natural number a and n > 0.  a / n is the float nearest
\* to the quotient (53 significant bits, a tie to even) and int() drops its
\* fraction.  Below 2^53 the result is the integer quotient: the quotient
\* is at least 1 / n below the next integer, more than half a unit in the
\* last place of the float.
MagTrueDivInt(a, n) ==
    IF MagLess(a, TwoTo53) THEN MagDiv(a, n)
    ELSE LET e == BinaryExponent(a, IntText(n), 0)
         IN  IF e <= 52
             THEN Halved(RoundHalfEven(Doubled(a, 52 - e), n), 52 - e)
             ELSE MagMul(RoundHalfEven(a, n * TwoTo(e - 52)), TwoTo(e - 52))

---------------------------------------------------------------------------
(* Dates: datetime.date as a day number, fromisoformat, isoformat *)

IsLeap(y) == (y % 4 = 0 /\ y % 100 # 0) \/ y % 400 = 0

DaysInYear(y) == IF IsLeap(y) THEN 366 ELSE 365

DaysInMonth(y, m) ==
    IF m = 2 THEN (IF IsLeap(y) THEN 29 ELSE 28)
    ELSE IF m \in {4, 6, 9, 11} THEN 30 ELSE 31

\* days from 2024-01-01 to January 1st of year y
RECURSIVE DaysBeforeYear(_)
DaysBeforeYear(y) ==
    IF y = 2024 THEN 0
    ELSE IF y > 2024 THEN DaysBeforeYear(y - 1) + DaysInYear(y - 1)
    ELSE DaysBeforeYear(y + 1) - DaysInYear(y)

RECURSIVE DaysBeforeMonth(_, _)
DaysBeforeMonth(y, m) ==
    IF m = 1 THEN 0 ELSE DaysBeforeMonth(y, m - 1) + DaysInMonth(y, m - 1)

\* datetime.date(y, m, d) as a day number
DayNumber(y, m, d) == DaysBeforeYear(y) + DaysBeforeMonth(y, m) + (d - 1)

\* the calendar fields of a day number (the years the model's inputs span)
YearOf(n) ==
    CHOOSE y \in 2022..2026 :
        DaysBeforeYear(y) <= n /\ n < DaysBeforeYear(y + 1)

MonthOf(n) ==
    LET y == YearOf(n)
    IN  CHOOSE m \in 1..12 :
            /\ DayNumber(y, m, 1) <= n
            /\ n < DayNumber(y, m, 1) + DaysInMonth(y, m)

DayOf(n) == n - DayNumber(YearOf(n), MonthOf(n), 1) + 1

\* date.isoformat(): YYYY-MM-DD
isoformat(n) ==
    ZeroPad(NatStr(YearOf(n)), 4) \o <<"-">> \o ZeroPad(NatStr(MonthOf(n)), 2)
        \o <<"-">> \o ZeroPad(NatStr(DayOf(n)), 2)

\* The date part YYYY-MM-DD of an ISO string is well formed and names a day.
DatePartOk(s) ==
    /\ Len(s) >= 10
    /\ AllDigits(SubSeq(s, 1, 4)) /\ s[5] = "-"
    /\ AllDigits(SubSeq(s, 6, 7)) /\ s[8] = "-"
    /\ AllDigits(SubSeq(s, 9, 10))
    /\ LET y == DigitsVal(SubSeq(s, 1, 4))
           m == DigitsVal(SubSeq(s, 6, 7))
           d == DigitsVal(SubSeq(s, 9, 10))
       IN  y >= 1 /\ m \in 1..12 /\ d >= 1 /\ d <= DaysInMonth(y, m)

\* The rest of an ISO string: nothing, or one separator character and HH:MM.
TimePartOk(s) ==
    \/ Len(s) = 10
    \/ /\ Len(s) = 16
       /\ AllDigits(SubSeq(s, 12, 13)) /\ s[14] = ":"
       /\ AllDigits(SubSeq(s, 15, 16))
       /\ DigitsVal(SubSeq(s, 12, 13)) < 24
       /\ DigitsVal(SubSeq(s, 15, 16)) < 60

\* datetime.datetime.fromisoformat(s) returns (ValueError otherwise)
fromisoformatOk(s) == DatePartOk(s) /\ TimePartOk(s)

\* datetime.datetime.fromisoformat(s).date()
fromisoformat(s) ==
    DayNumber(DigitsVal(SubSeq(s, 1, 4)), DigitsVal(SubSeq(s, 6, 7)),
              DigitsVal(SubSeq(s, 9, 10)))

\* datetime.date.today(): the day the process runs on
Today == DayNumber(2024, 3, 15)

---------------------------------------------------------------------------
(* Tables *)

\* Rows carry the columns of the models.  A nullable column holds None or
\* Some(value); customer_id, name, order_id, Order.customer_id and fu_id are
\* nullable=False and hold the bare value.

\* The rowid SQLite gives a row inserted without one: INTEGER PRIMARY KEY
\* without AUTOINCREMENT is one more than the largest rowid in the table.
NextRowId(table) == IF table = {} THEN 1 ELSE Max({r.id : r \in table}) + 1

\* query.order_by(id.desc()).first(): the row with the largest rowid
LastRow(table) == CHOOSE r \in table : r.id = Max({q.id : q \in table})

\* session.bulk_save_objects / session.add of rows given in order: each row
\* gets the next rowid.
RECURSIVE InsertAll(_, _)
InsertAll(table, rows) ==
    IF rows = <<>> THEN table
    ELSE InsertAll(table \cup {[id |-> NextRowId(table)] @@ Head(rows)}, Tail(rows))

\* The unique=True constraints: the public ids of the rows to insert are
\* new to the table and differ from each other.
UniqueOk(ids, newIds) ==
    /\ \A i \in 1..Len(newIds) : newIds[i] \notin ids
    /\ \A i, j \in 1..Len(newIds) : newIds[i] = newIds[j] => i = j

CustomerIds == {r.customer_id : r \in customers}
OrderIds == {r.order_id : r \in orders}
FollowUpIds == {r.fu_id : r \in followups}

---------------------------------------------------------------------------
(* seed_data *)

SeedCustomers == <<
    [customer_id |-> <<"C", "0", "0", "1">>,
     name |-> <<"P", "r", "i", "y", "a", " ", "R", "e", "d", "d", "y">>,
     insta |-> Some(<<"@", "p", "r", "i", "y", "a", "r", "e", "d", "d", "y">>),
     phone |-> Some(<<"9", "8", "7", "6", "5", "4", "3", "2", "1", "0">>),
     city |-> Some(<<"H", "y", "d", "e", "r", "a", "b", "a", "d">>),
     ctype |-> Some(<<"R", "e", "g", "u", "l", "a", "r">>),
     notes |-> Some(<<"L", "o", "v", "e", "s", " ", "s", "o", "f", "t", " ", "s", "i", "l", "k", " ", "s", "a", "r", "e", "e", "s">>)],
    [customer_id |-> <<"C", "0", "0", "2">>,
     name |-> <<"K", "a", "v", "y", "a", " ", "S", "h", "a", "r", "m", "a">>,
     insta |-> Some(<<"@", "k", "a", "v", "y", "a", ".", "s">>),
     phone |-> Some(<<"9", "9", "8", "8", "7", "7", "6", "6", "5", "5">>),
     city |-> Some(<<"B", "e", "n", "g", "a", "l", "u", "r", "u">>),
     ctype |-> Some(<<"N", "e", "w">>),
     notes |-> Some(<<"A", "s", "k", "e", "d", " ", "a", "b", "o", "u", "t", " ", "B", "a", "n", "a", "r", "a", "s", "i">>)],
    [customer_id |-> <<"C", "0", "0", "3">>,
     name |-> <<"M", "e", "e", "n", "a", " ", "P", "a", "t", "e", "l">>,
     insta |-> Some(<<"@", "m", "e", "e", "n", "a", "p">>),
     phone |-> Some(<<"9", "1", "2", "3", "4", "5", "6", "7", "8", "0">>),
     city |-> Some(<<"M", "u", "m", "b", "a", "i">>),
     ctype |-> Some(<<"V", "I", "P">>),
     notes |-> Some(<<"P", "r", "e", "f", "e", "r", "s", " ", "p", "a", "s", "t", "e", "l", " ", "c", "o", "l", "o", "r", "s">>)] >>

SeedOrders == <<
    [order_id |-> <<"O", "0", "0", "1">>,
     date |-> Some(Today - 60),
     customer_id |-> <<"C", "0", "0", "1">>,
     saree_type |-> Some(<<"S", "o", "f", "t", " ", "S", "i", "l", "k">>),
     amount |-> Some(IntText(2500)),
     payment_status |-> Some(<<"P", "a", "i", "d">>),
     delivery_status |-> Some(<<"D", "e", "l", "i", "v", "e", "r", "e", "d">>),
     remarks |-> None],
    [order_id |-> <<"O", "0", "0", "2">>,
     date |-> Some(Today - 45),
     customer_id |-> <<"C", "0", "0", "3">>,
     saree_type |-> Some(<<"C", "h", "i", "f", "f", "o", "n", " ", "F", "l", "o", "r", "a", "l">>),
     amount |-> Some(IntText(1800)),
     payment_status |-> Some(<<"P", "a", "i", "d">>),
     delivery_status |-> Some(<<"D", "e", "l", "i", "v", "e", "r", "e", "d">>),
     remarks |-> None],
    [order_id |-> <<"O", "0", "0", "3">>,
     date |-> Some(Today - 30),
     customer_id |-> <<"C", "0", "0", "2">>,
     saree_type |-> Some(<<"B", "a", "n", "a", "r", "a", "s", "i">>),
     amount |-> Some(IntText(3200)),
     payment_status |-> Some(<<"P", "a", "i", "d">>),
     delivery_status |-> Some(<<"D", "e", "l", "i", "v", "e", "r", "e", "d">>),
     remarks |-> None] >>

SeedFollowUps == <<
    [fu_id |-> <<"F", "0", "0", "1">>,
     date |-> Some(Today - 10),
     customer_name |-> Some(<<"K", "a", "v", "y", "a", " ", "S", "h", "a", "r", "m", "a">>),
     insta |-> Some(<<"@", "k", "a", "v", "y", "a", ".", "s">>),
     topic |-> Some(<<"I", "n", "t", "e", "r", "e", "s", "t", "e", "d", " ", "i", "n", " ", "B", "a", "n", "a", "r", "a", "s", "i", " ", "s", "a", "r", "e", "e">>),
     next_date |-> Some(Today + 2),
     status |-> Some(<<"P", "e", "n", "d", "i", "n", "g">>),
     remarks |-> Some(<<"S", "e", "n", "d", " ", "n", "e", "w", " ", "a", "r", "r", "i", "v", "a", "l", "s", " ", "i", "m", "a", "g", "e", "s">>)] >>

PublicIds(rows, field) == [i \in 1..Len(rows) |-> rows[i][field]]

\* Mutant: the public id columns carry no unique constraint.
SeedIntegrityOk_NoConstraint == TRUE

\* The rows are flushed table by table inside one transaction; a unique
\* violation raises IntegrityError before the commit, so nothing is stored.
SeedIntegrityOk ==
    /\ UniqueOk(CustomerIds, PublicIds(SeedCustomers, "customer_id"))
    /\ UniqueOk(OrderIds, PublicIds(SeedOrders, "order_id"))
    /\ UniqueOk(FollowUpIds, PublicIds(SeedFollowUps, "fu_id"))

\* Mutant: the guard looks at the Order table.
SeedSkips_ChecksOrders == orders # {}

\* `if Customer.query.first(): return`
SeedSkips == customers # {}

\* The answer to a request: the HTTP status (or the outcome of a start-up
\* step), the branch of the handler that produced it, and the public id the
\* handler resolved (None when it had none).
Resp(status, branch, id) == [status |-> status, branch |-> branch, id |-> id]

\* __main__ runs create_all() and seed_data() before the first request.
SeedData ==
    /\ phase = "boot"
    /\ req' = [handler |-> "seed_data"]
    /\ IF SeedSkips
       THEN /\ UNCHANGED <<customers, orders, followups>>
            /\ resp' = Resp("ok", "skip", None)
            /\ phase' = "serving"
       ELSE IF SeedIntegrityOk
       THEN /\ customers' = InsertAll(customers, SeedCustomers)
            /\ orders' = InsertAll(orders, SeedOrders)
            /\ followups' = InsertAll(followups, SeedFollowUps)
            /\ resp' = Resp("ok", "seed", None)
            /\ phase' = "serving"
       ELSE /\ UNCHANGED <<customers, orders, followups>>
            /\ resp' = Resp("IntegrityError", "error", None)
            /\ phase' = "boot"
    /\ UNCHANGED client

\* The process is stopped and started again on the same database file.
Restart ==
    /\ phase = "serving"
    /\ phase' = "boot"
    /\ req' = [handler |-> "restart"]
    /\ resp' = Resp("ok", "restart", None)
    /\ UNCHANGED <<customers, orders, followups, client>>

---------------------------------------------------------------------------
(* Identifier generator *)

C001 == <<"C", "0", "0", "1">>
O001 == <<"O", "0", "0", "1">>
F001 == <<"F", "0", "0", "1">>

\* int(...) in next_customer_id does not raise ValueError
next_customer_id_ok ==
    customers = {} \/ IntOk(lstrip(LastRow(customers).customer_id, "C"))

next_customer_id ==
    IF customers = {} THEN C001
    ELSE <<"C">> \o Format03d(IntOf(lstrip(LastRow(customers).customer_id, "C")) + 1)

next_order_id_ok ==
    orders = {} \/ IntOk(lstrip(LastRow(orders).order_id, "O"))

next_order_id ==
    IF orders = {} THEN O001
    ELSE <<"O">> \o Format03d(IntOf(lstrip(LastRow(orders).order_id, "O")) + 1)

next_fu_id_ok ==
    followups = {} \/ IntOk(lstrip(LastRow(followups).fu_id, "F"))

next_fu_id ==
    IF followups = {} THEN F001
    ELSE <<"F">> \o Format03d(IntOf(lstrip(LastRow(followups).fu_id, "F")) + 1)

---------------------------------------------------------------------------
(* /customers *)

PUT == <<"P", "U", "T">>
DELETE == <<"D", "E", "L", "E", "T", "E">>

\* A form is a record of optional strings, one per key the handler reads;
\* the field method is the form key _method.

\* Mutant: the insert is not guarded by `if not existing`.
WriteBranch_InsertUnguarded(existing, method) ==
    IF existing # {} /\ method = Some(PUT) THEN "update"
    ELSE IF existing # {} /\ method = Some(DELETE) THEN "delete"
    ELSE "insert"

\* Mutant: a found row is updated whenever the flag is not DELETE.
WriteBranch_UpdateUnflagged(existing, method) ==
    IF existing # {} /\ method # Some(DELETE) THEN "update"
    ELSE IF existing # {} THEN "delete"
    ELSE "insert"

\* The three `if` statements of a POST handler, in order: which branch runs
\* for the rows found and the flag sent; "list" is the fall-through to the
\* code of the GET, which renders the list page.
WriteBranch(existing, method) ==
    IF existing # {} /\ method = Some(PUT) THEN "update"
    ELSE IF existing # {} /\ method = Some(DELETE) THEN "delete"
    ELSE IF existing = {} THEN "insert"
    ELSE "list"

\* Mutant: the delete cascades to the customer's orders.
DeleteCustomer_Cascade(existing) ==
    /\ customers' = customers \ existing
    /\ orders' = {o \in orders : \A c \in existing : o.customer_id # c.customer_id}
    /\ UNCHANGED followups

\* Mutant: the delete is never committed.
DeleteCustomer_NoCommit(existing) == UNCHANGED <<customers, orders, followups>>

\* db.session.delete(existing); db.session.commit() in customers()
DeleteCustomer(existing) ==
    /\ customers' = customers \ existing
    /\ UNCHANGED <<orders, followups>>

\* the assignments of the update branch
CustomerUpdated(row, form) ==
    [row EXCEPT !.name = Val(form.name),
                !.insta = form.insta,
                !.phone = form.phone,
                !.city = form.city,
                !.ctype = form.ctype,
                !.notes = form.notes]

\* Customer(customer_id=cid, name=..., ...)
CustomerNew(cid, form) ==
    [customer_id |-> cid,
     name |-> Val(form.name),
     insta |-> form.insta,
     phone |-> form.phone,
     city |-> form.city,
     ctype |-> form.ctype,
     notes |-> form.notes]

\* POST /customers.  request.form['name'] raises a 400 Bad Request when the
\* key is missing; an exception leaves the session uncommitted.
CustomersPost(form) ==
    /\ phase = "serving"
    /\ req' = [handler |-> "customers", form |-> form]
    /\ UNCHANGED <<phase, client>>
    /\ IF ~Truthy(form.customer_id) /\ ~next_customer_id_ok
       THEN /\ resp' = Resp("500", "ValueError", None)
            /\ UNCHANGED <<customers, orders, followups>>
       ELSE \E cid \in {OrElse(form.customer_id, next_customer_id)} :
            \E existing \in {{r \in customers : r.customer_id = cid}} :
                IF WriteBranch(existing, form.method) = "update"
                THEN IF form.name = None
                     THEN /\ resp' = Resp("400", "KeyError", Some(cid))
                          /\ UNCHANGED <<customers, orders, followups>>
                     ELSE /\ customers' = (customers \ existing) \cup
                                {CustomerUpdated(r, form) : r \in existing}
                          /\ UNCHANGED <<orders, followups>>
                          /\ resp' = Resp("302", "update", Some(cid))
                ELSE IF WriteBranch(existing, form.method) = "delete"
                THEN /\ DeleteCustomer(existing)
                     /\ resp' = Resp("302", "delete", Some(cid))
                ELSE IF WriteBranch(existing, form.method) = "insert"
                THEN IF form.name = None
                     THEN /\ resp' = Resp("400", "KeyError", Some(cid))
                          /\ UNCHANGED <<customers, orders, followups>>
                     ELSE /\ customers' = InsertAll(customers, <<CustomerNew(cid, form)>>)
                          /\ UNCHANGED <<orders, followups>>
                          /\ resp' = Resp("302", "insert", Some(cid))
                ELSE /\ resp' = Resp("200", "list", Some(cid))
                     /\ UNCHANGED <<customers, orders, followups>>

\* GET /customers/edit/<cid>: first_or_404, then the form filled from the row
EditCustomer(cid) ==
    /\ phase = "serving"
    /\ req' = [handler |-> "edit_customer", id |-> cid]
    /\ UNCHANGED <<customers, orders, followups, phase, client>>
    /\ LET found == {r \in customers : r.customer_id = cid}
       IN  IF found = {}
           THEN resp' = Resp("404", "not_found", Some(cid))
           ELSE resp' = [status |-> "200", branch |-> "form", id |-> Some(cid),
                         row |-> CHOOSE r \in found : TRUE]

---------------------------------------------------------------------------
(* /orders *)

\* datetime.date.today().isoformat()
TodayText == isoformat(Today)

\* request.form.get('date') or datetime.date.today().isoformat()
DateText(form) == OrElse(form.date, TodayText)

\* int(request.form.get('amount') or 0) returns (ValueError otherwise)
AmountOk(form) == ~Truthy(form.amount) \/ IntOk(Val(form.amount))

AmountOf(form) == IF Truthy(form.amount) THEN PyInt(Val(form.amount)) ELSE Zero

\* Mutant: the update assigns the date only when the form carries one.
OrderUpdated_KeepsDateWhenBlank(row, form) ==
    [row EXCEPT !.date = IF Truthy(form.date)
                         THEN Some(fromisoformat(Val(form.date))) ELSE row.date,
                !.customer_id = Val(form.customer_id),
                !.saree_type = form.saree_type,
                !.amount = Some(AmountOf(form)),
                !.payment_status = form.payment_status,
                !.delivery_status = form.delivery_status,
                !.remarks = form.remarks]

\* the assignments of the update branch (customer_id is checked NOT NULL
\* at the commit)
OrderUpdated(row, form) ==
    [row EXCEPT !.date = Some(fromisoformat(DateText(form))),
                !.customer_id = Val(form.customer_id),
                !.saree_type = form.saree_type,
                !.amount = Some(AmountOf(form)),
                !.payment_status = form.payment_status,
                !.delivery_status = form.delivery_status,
                !.remarks = form.remarks]

\* Order(order_id=oid, date=date_obj, ...)
OrderNew(oid, form) ==
    [order_id |-> oid,
     date |-> Some(fromisoformat(DateText(form))),
     customer_id |-> Val(form.customer_id),
     saree_type |-> form.saree_type,
     amount |-> Some(AmountOf(form)),
     payment_status |-> form.payment_status,
     delivery_status |-> form.delivery_status,
     remarks |-> form.remarks]

\* The in-memory row of an update when int() raises: existing.date,
\* existing.customer_id and existing.saree_type are assigned, the other
\* fields are not (a customer_id missing from the form is shown empty).
OrderAssignedBeforeAmount(row, form) ==
    [row EXCEPT !.date = Some(fromisoformat(DateText(form))),
                !.customer_id = OrElse(form.customer_id, <<>>),
                !.saree_type = form.saree_type]

\* Mutant: the teardown commits what the session holds.
shutdown_session_Commits(persisted, session) == session

\* The teardown of a request that raised: Flask-SQLAlchemy removes the
\* session, which rolls back what was not committed; the rows assigned in
\* memory are dropped with it and the store keeps the persisted rows.
shutdown_session(persisted, session) == persisted

\* POST /orders.  The date is parsed before the branches, so a malformed
\* date fails every branch; at the commit an amount outside 64 bits cannot
\* be bound to the statement (OverflowError) and a missing customer_id
\* violates nullable=False (IntegrityError).
OrdersPost(form) ==
    /\ phase = "serving"
    /\ req' = [handler |-> "orders", form |-> form]
    /\ UNCHANGED <<customers, followups, phase, client>>
    /\ IF ~Truthy(form.order_id) /\ ~next_order_id_ok
       THEN /\ resp' = Resp("500", "ValueError", None)
            /\ UNCHANGED orders
       ELSE \E oid \in {OrElse(form.order_id, next_order_id)} :
            \E existing \in {{r \in orders : r.order_id = oid}} :
                IF ~fromisoformatOk(DateText(form))
                THEN /\ resp' = Resp("500", "ValueError", Some(oid))
                     /\ UNCHANGED orders
                ELSE IF WriteBranch(existing, form.method) = "update"
                THEN IF ~AmountOk(form)
                     THEN /\ resp' = Resp("500", "ValueError", Some(oid))
                          /\ orders' = shutdown_session(orders,
                                (orders \ existing) \cup
                                    {OrderAssignedBeforeAmount(r, form) : r \in existing})
                     ELSE IF ~FitsInt64(AmountOf(form))
                     THEN /\ resp' = Resp("500", "OverflowError", Some(oid))
                          /\ UNCHANGED orders
                     ELSE IF form.customer_id = None
                     THEN /\ resp' = Resp("500", "IntegrityError", Some(oid))
                          /\ UNCHANGED orders
                     ELSE /\ orders' = (orders \ existing) \cup
                                {OrderUpdated(r, form) : r \in existing}
                          /\ resp' = Resp("302", "update", Some(oid))
                ELSE IF WriteBranch(existing, form.method) = "delete"
                THEN /\ orders' = orders \ existing
                     /\ resp' = Resp("302", "delete", Some(oid))
                ELSE IF WriteBranch(existing, form.method) = "insert"
                THEN IF ~AmountOk(form)
                     THEN /\ resp' = Resp("500", "ValueError", Some(oid))
                          /\ UNCHANGED orders
                     ELSE IF ~FitsInt64(AmountOf(form))
                     THEN /\ resp' = Resp("500", "OverflowError", Some(oid))
                          /\ UNCHANGED orders
                     ELSE IF form.customer_id = None
                     THEN /\ resp' = Resp("500", "IntegrityError", Some(oid))
                          /\ UNCHANGED orders
                     ELSE /\ orders' = InsertAll(orders, <<OrderNew(oid, form)>>)
                          /\ resp' = Resp("302", "insert", Some(oid))
                ELSE /\ resp' = Resp("200", "list", Some(oid))
                     /\ UNCHANGED orders

\* GET /orders/edit/<oid>
EditOrder(oid) ==
    /\ phase = "serving"
    /\ req' = [handler |-> "edit_order", id |-> oid]
    /\ UNCHANGED <<customers, orders, followups, phase, client>>
    /\ LET found == {r \in orders : r.order_id = oid}
       IN  IF found = {}
           THEN resp' = Resp("404", "not_found", Some(oid))
           ELSE resp' = [status |-> "200", branch |-> "form", id |-> Some(oid),
                         row |-> CHOOSE r \in found : TRUE]

---------------------------------------------------------------------------
(* /followups *)

\* nd = fromisoformat(next_date).date() if next_date else None
NextDateOk(form) == ~Truthy(form.next_date) \/ fromisoformatOk(Val(form.next_date))

NextDateOf(form) ==
    IF Truthy(form.next_date) THEN Some(fromisoformat(Val(form.next_date))) ELSE None

FollowUpUpdated(row, form) ==
    [row EXCEPT !.date = Some(fromisoformat(DateText(form))),
                !.customer_name = form.customer_name,
                !.insta = form.insta,
                !.topic = form.topic,
                !.next_date = NextDateOf(form),
                !.status = form.status,
                !.remarks = form.remarks]

FollowUpNew(fid, form) ==
    [fu_id |-> fid,
     date |-> Some(fromisoformat(DateText(form))),
     customer_name |-> form.customer_name,
     insta |-> form.insta,
     topic |-> form.topic,
     next_date |-> NextDateOf(form),
     status |-> form.status,
     remarks |-> form.remarks]

\* POST /followups.  next_date is parsed before the branches; date is
\* parsed inside the update and the insert branch only.
FollowUpsPost(form) ==
    /\ phase = "serving"
    /\ req' = [handler |-> "followups", form |-> form]
    /\ UNCHANGED <<customers, orders, phase, client>>
    /\ IF ~Truthy(form.fu_id) /\ ~next_fu_id_ok
       THEN /\ resp' = Resp("500", "ValueError", None)
            /\ UNCHANGED followups
       ELSE \E fid \in {OrElse(form.fu_id, next_fu_id)} :
            \E existing \in {{r \in followups : r.fu_id = fid}} :
                IF ~NextDateOk(form)
                THEN /\ resp' = Resp("500", "ValueError", Some(fid))
                     /\ UNCHANGED followups
                ELSE IF WriteBranch(existing, form.method) = "update"
                THEN IF ~fromisoformatOk(DateText(form))
                     THEN /\ resp' = Resp("500", "ValueError", Some(fid))
                          /\ UNCHANGED followups
                     ELSE /\ followups' = (followups \ existing) \cup
                                {FollowUpUpdated(r, form) : r \in existing}
                          /\ resp' = Resp("302", "update", Some(fid))
                ELSE IF WriteBranch(existing, form.method) = "delete"
                THEN /\ followups' = followups \ existing
                     /\ resp' = Resp("302", "delete", Some(fid))
                ELSE IF WriteBranch(existing, form.method) = "insert"
                THEN IF ~fromisoformatOk(DateText(form))
                     THEN /\ resp' = Resp("500", "ValueError", Some(fid))
                          /\ UNCHANGED followups
                     ELSE /\ followups' = InsertAll(followups, <<FollowUpNew(fid, form)>>)
                          /\ resp' = Resp("302", "insert", Some(fid))
                ELSE /\ resp' = Resp("200", "list", Some(fid))
                     /\ UNCHANGED followups

\* GET /followups/edit/<fid>
EditFollowUp(fid) ==
    /\ phase = "serving"
    /\ req' = [handler |-> "edit_followup", id |-> fid]
    /\ UNCHANGED <<customers, orders, followups, phase, client>>
    /\ LET found == {r \in followups : r.fu_id = fid}
       IN  IF found = {}
           THEN resp' = Resp("404", "not_found", Some(fid))
           ELSE resp' = [status |-> "200", branch |-> "form", id |-> Some(fid),
                         row |-> CHOOSE r \in found : TRUE]

---------------------------------------------------------------------------
(* /dashboard *)

Pending == <<"P", "e", "n", "d", "i", "n", "g">>
Unknown == <<"U", "n", "k", "n", "o", "w", "n">>

\* the sum of the amounts of a set of rows; NULL amounts are skipped
RECURSIVE SumAmounts(_)
SumAmounts(rows) ==
    IF rows = {} THEN Zero
    ELSE LET r == CHOOSE x \in rows : TRUE
         IN  IntAdd(IF r.amount = None THEN Zero ELSE Val(r.amount),
                    SumAmounts(rows \ {r}))

\* func.sum(Order.amount) adds the amounts in 64 bits, in the order the
\* rows reach it, and fails with "integer overflow" once a partial sum
\* leaves the 64 bits.  The order is not specified.  Some order overflows
\* exactly when the positive or the negative amounts alone overflow; some
\* order completes exactly when the sum of all fits (take amounts of the
\* sign opposite to the partial sum while there are any).
SumMayOverflow(rows) ==
    \/ ~FitsInt64(SumAmounts({r \in rows : r.amount # None /\ ~IsNeg(Val(r.amount))}))
    \/ ~FitsInt64(SumAmounts({r \in rows : r.amount # None /\ IsNeg(Val(r.amount))}))

SumMayComplete(rows) == FitsInt64(SumAmounts(rows))

\* int(a / b) for b > 0: the float quotient with its fraction dropped
TruncDiv(a, b) == MkInt(IsNeg(a), MagTrueDivInt(Mag(a), b))

\* func.coalesce(func.sum(Order.amount), 0)
total_sales == SumAmounts(orders)

avg_order ==
    IF Cardinality(orders) # 0 THEN TruncDiv(total_sales, Cardinality(orders)) ELSE Zero

\* func.strftime('%Y-%m', Order.date): NULL for a NULL date
MonthKey(date) ==
    IF date = None THEN None
    ELSE Some(ZeroPad(NatStr(YearOf(Val(date))), 4) \o <<"-">>
                \o ZeroPad(NatStr(MonthOf(Val(date))), 2))

MonthRank_IgnoresYear(date) ==
    IF date = None THEN 0 - 1 ELSE MonthOf(Val(date))

\* The position of a month key under ORDER BY m: NULL first, then the
\* YYYY-MM texts, whose text order is the order of 12 * year + month.
MonthRank(date) ==
    IF date = None THEN 0 - 1 ELSE 12 * YearOf(Val(date)) + MonthOf(Val(date))

RECURSIVE MonthlyFrom(_, _)
MonthlyFrom(rank, rows) ==
    IF rows = {} THEN <<>>
    ELSE LET least == CHOOSE k \in {rank[r] : r \in rows} :
                          \A r \in rows : k <= rank[r]
             group == {r \in rows : rank[r] = least}
         IN  <<[month |-> MonthKey((CHOOSE r \in group : TRUE).date),
                amount |-> SumAmounts(group)]>>
                 \o MonthlyFrom(rank, rows \ group)

\* q: GROUP BY m ORDER BY m
monthly == MonthlyFrom([r \in orders |-> MonthRank(r.date)], orders)

\* q2: GROUP BY saree_type (NULL and '' are two groups), one entry per
\* group; the order of the entries is not specified by the query.
saree_dist ==
    [g \in {r.saree_type : r \in orders} |->
        [type |-> OrElse(g, Unknown),
         count |-> Cardinality({r \in orders : r.saree_type = g})]]

\* GROUP BY Order.customer_id with func.sum(Order.amount): the sum of each
\* group
CustomerSums ==
    [c \in {r.customer_id : r \in orders} |->
        SumAmounts({r \in orders : r.customer_id = c})]

TopLimit == 5

\* Mutant: ORDER BY sum ASC.
RECURSIVE TopRows_Ascending(_, _, _)
TopRows_Ascending(sum, cids, n) ==
    IF cids = {} \/ n = 0 THEN {<<>>}
    ELSE LET low == CHOOSE v \in {sum[c] : c \in cids} :
                        \A c \in cids : IntLeq(v, sum[c])
         IN  UNION {{<<[customer_id |-> c, sum |-> low]>> \o rest :
                        rest \in TopRows_Ascending(sum, cids \ {c}, n - 1)} :
                    c \in {d \in cids : sum[d] = low}}

\* ORDER BY sum DESC LIMIT n over the groups `cids` with sums `sum`: every
\* order the database may return (rows with equal sums come in any order).
RECURSIVE TopRows(_, _, _)
TopRows(sum, cids, n) ==
    IF cids = {} \/ n = 0 THEN {<<>>}
    ELSE LET top == CHOOSE v \in {sum[c] : c \in cids} :
                        \A c \in cids : IntLeq(sum[c], v)
         IN  UNION {{<<[customer_id |-> c, sum |-> top]>> \o rest :
                        rest \in TopRows(sum, cids \ {c}, n - 1)} :
                    c \in {d \in cids : sum[d] = top}}

\* cust.name if cust else r[0]
TopLabel(cid) ==
    LET cust == {c \in customers : c.customer_id = cid}
    IN  IF cust # {} THEN (CHOOSE c \in cust : TRUE).name ELSE cid

\* the groups of q (by month) and of q3 (by customer_id)
GroupsBy(key) == {{r \in orders : key[r] = k} : k \in {key[r] : r \in orders}}

\* Every sum of the page may complete: the sum over all orders, over the
\* orders of each month and of each customer.  A group is a subset of the
\* orders, so its sum may overflow only if the sum over all orders may.
EverySumMayComplete ==
    SumMayOverflow(orders) =>
        \A g \in {orders} \cup GroupsBy([r \in orders |-> MonthRank(r.date)])
                          \cup GroupsBy([r \in orders |-> r.customer_id]) :
            SumMayComplete(g)

\* GET /dashboard.  A sum that overflows raises OperationalError, which no
\* handler catches (500); otherwise the page is rendered.
Dashboard ==
    /\ phase = "serving"
    /\ req' = [handler |-> "dashboard"]
    /\ UNCHANGED <<customers, orders, followups, phase, client>>
    /\ \/ /\ SumMayOverflow(orders)
          /\ resp' = Resp("500", "OperationalError", None)
       \/ /\ EverySumMayComplete
          /\ LET kpis ==
               [status |-> "200", branch |-> "dashboard", id |-> None,
                total_customers |-> Cardinality(customers),
                total_orders |-> Cardinality(orders),
                total_sales |-> total_sales,
                avg_order |-> avg_order,
                pending_payments |->
                    Cardinality({r \in orders : r.payment_status = Some(Pending)}),
                pending_delivery |->
                    Cardinality({r \in orders : r.delivery_status = Some(Pending)}),
                pending_followups |->
                    Cardinality({r \in followups : r.status = Some(Pending)}),
                monthly |-> monthly,
                saree_dist |-> saree_dist]
             IN  \E k \in {kpis}, q3 \in TopRows(CustomerSums, DOMAIN CustomerSums, TopLimit) :
                   resp' = k @@
                       [q3 |-> q3,
                        topc |-> [i \in 1..Len(q3) |->
                                     [name |-> TopLabel(q3[i].customer_id),
                                      amount |-> q3[i].sum]]]

---------------------------------------------------------------------------
(* Requests *)

C002 == <<"C", "0", "0", "2">>
C003 == <<"C", "0", "0", "3">>

\* ids typed into the add form and carried by the edit form
CustomerIdInputs == {None, Some(C001)}

\* ids of the rows whose delete button is pressed
CustomerDeleteIds == {C001, C002, C003}

MethodInputs == {None, Some(PUT), Some(DELETE)}

\* the add or edit form filled in, and the same with only the required
\* field
CustomerContents ==
    { [name |-> Some(<<"A", "s", "h", "a">>), insta |-> Some(<<"@", "a">>),
       phone |-> Some(<<"9", "8">>), city |-> Some(<<"P", "u", "n", "e">>),
       ctype |-> Some(<<"N", "e", "w">>), notes |-> Some(<<"h", "i">>)],
      [name |-> Some(<<"B", "i", "n", "a">>), insta |-> Some(<<>>),
       phone |-> Some(<<>>), city |-> Some(<<>>),
       ctype |-> Some(<<"V", "I", "P">>), notes |-> Some(<<>>)] }

\* the delete button of a row of the list page posts the id and the flag
\* and no other key
CustomerDeleteButton(cid) ==
    [customer_id |-> Some(cid), method |-> Some(DELETE), name |-> None,
     insta |-> None, phone |-> None, city |-> None, ctype |-> None, notes |-> None]

CustomerForms ==
    {[customer_id |-> i, method |-> m] @@ c :
        i \in CustomerIdInputs, m \in MethodInputs, c \in CustomerContents}
    \cup {CustomerDeleteButton(i) : i \in CustomerDeleteIds}
    \cup {[CustomerDeleteButton(C001) EXCEPT !.customer_id = None]}

MaxCustomerRowId == 4

RowIdsWithin(table, n) == \A r \in table : r.id <= n

OrderIdInputs == {None, Some(O001)}

\* the form filled in (a datetime-local date, a refund as a negative
\* amount), the form left blank, a date and an amount that do not parse
OrderFilled ==
    [date |-> Some(<<"2", "0", "2", "4", "-", "0", "2", "-", "1", "0", "T", "0", "9", ":", "3", "0">>),
     customer_id |-> Some(C001),
     saree_type |-> Some(<<"S", "i", "l", "k">>),
     amount |-> Some(<<"-", "9", "0", "0", "0">>),
     payment_status |-> Some(Pending),
     delivery_status |-> Some(Pending),
     remarks |-> Some(<<"r">>)]

OrderContents ==
    { OrderFilled,
      [date |-> Some(<<>>), customer_id |-> Some(<<>>), saree_type |-> Some(<<>>),
       amount |-> Some(<<>>), payment_status |-> Some(<<"P", "a", "i", "d">>),
       delivery_status |-> Some(<<"S", "h", "i", "p", "p", "e", "d">>), remarks |-> Some(<<>>)],
      [OrderFilled EXCEPT !.date = Some(<<"1", "0", "/", "0", "2", "/", "2", "0", "2", "4">>)],
      [OrderFilled EXCEPT !.amount = Some(<<"1", "2", ".", "5">>)] }

O002 == <<"O", "0", "0", "2">>
O003 == <<"O", "0", "0", "3">>

OrderDeleteIds == {O001, O002, O003}

OrderDeleteButton(oid) ==
    [order_id |-> Some(oid), method |-> Some(DELETE), date |-> None,
     customer_id |-> None, saree_type |-> None, amount |-> None,
     payment_status |-> None, delivery_status |-> None, remarks |-> None]

OrderForms ==
    {[order_id |-> i, method |-> m] @@ c :
        i \in OrderIdInputs, m \in MethodInputs, c \in OrderContents}
    \cup {OrderDeleteButton(i) : i \in OrderDeleteIds}
    \cup {[OrderDeleteButton(O001) EXCEPT !.order_id = None]}

MaxOrderRowId == 4

FollowUpIdInputs == {None, Some(F001)}

FollowUpFilled ==
    [date |-> Some(<<"2", "0", "2", "4", "-", "0", "3", "-", "0", "1">>),
     customer_name |-> Some(<<"A", "s", "h", "a">>),
     insta |-> Some(<<"@", "a">>),
     topic |-> Some(<<"S", "i", "l", "k">>),
     next_date |-> Some(<<"2", "0", "2", "4", "-", "0", "3", "-", "2", "0">>),
     status |-> Some(<<"D", "o", "n", "e">>),
     remarks |-> Some(<<"r">>)]

FollowUpContents ==
    { FollowUpFilled,
      [date |-> Some(<<>>), customer_name |-> Some(<<>>), insta |-> Some(<<>>),
       topic |-> Some(<<>>), next_date |-> Some(<<>>), status |-> Some(Pending),
       remarks |-> Some(<<>>)],
      [FollowUpFilled EXCEPT !.date = Some(<<"1", " ", "M", "a", "r", "c", "h">>)],
      [FollowUpFilled EXCEPT !.next_date = Some(<<"s", "o", "o", "n">>)] }

FollowUpDeleteIds == {F001}

FollowUpDeleteButton(fid) ==
    [fu_id |-> Some(fid), method |-> Some(DELETE), date |-> None,
     customer_name |-> None, insta |-> None, topic |-> None,
     next_date |-> None, status |-> None, remarks |-> None]

FollowUpForms ==
    {[fu_id |-> i, method |-> m] @@ c :
        i \in FollowUpIdInputs, m \in MethodInputs, c \in FollowUpContents}
    \cup {FollowUpDeleteButton(i) : i \in FollowUpDeleteIds}
    \cup {[FollowUpDeleteButton(F001) EXCEPT !.fu_id = None]}

MaxFollowUpRowId == 2

---------------------------------------------------------------------------
\* A run explores one browser session, which posts the forms of one page;
\* every session may fetch any edit form and the dashboard.
Init ==
    /\ customers = {}
    /\ orders = {}
    /\ followups = {}
    /\ phase = "boot"
    /\ client \in {"customers", "orders", "followups"}
    /\ req = [handler |-> "none"]
    /\ resp = Resp("ok", "none", None)

Next ==
    \/ SeedData
    \/ Restart
    \/ \E f \in CustomerForms :
          client = "customers" /\ CustomersPost(f) /\ RowIdsWithin(customers', MaxCustomerRowId)
    \/ \E i \in CustomerDeleteIds : EditCustomer(i)
    \/ \E f \in OrderForms :
          client = "orders" /\ OrdersPost(f) /\ RowIdsWithin(orders', MaxOrderRowId)
    \/ \E i \in OrderDeleteIds : EditOrder(i)
    \/ \E f \in FollowUpForms :
          client = "followups" /\ FollowUpsPost(f) /\ RowIdsWithin(followups', MaxFollowUpRowId)
    \/ \E i \in FollowUpDeleteIds : EditFollowUp(i)

Spec == Init /\ [][Next]_vars

---------------------------------------------------------------------------
(* The dashboard over many customers: a session that books orders for     *)
(* further customer ids from the add form and deletes customers.          *)

C004 == <<"C", "0", "0", "4">>
C005 == <<"C", "0", "0", "5">>
C006 == <<"C", "0", "0", "6">>

\* the add form with the (customer_id, amount) of the orders booked
ShopOrderForms ==
    {[order_id |-> None, method |-> None, date |-> Some(<<>>),
      customer_id |-> Some(s[1]), saree_type |-> Some(<<>>), amount |-> Some(s[2]),
      payment_status |-> Some(Pending), delivery_status |-> Some(Pending),
      remarks |-> Some(<<>>)] : s \in
    { <<C004, <<"1", "8", "0", "0">>>>, <<C005, <<"1", "8", "0", "0">>>>,
      <<C006, <<"1", "8", "0", "0">>>>, <<C006, <<"3", "0", "0">>>> }}

MaxShopOrderRowId == 6

InitDash ==
    /\ customers = {}
    /\ orders = {}
    /\ followups = {}
    /\ phase = "boot"
    /\ client = "shop"
    /\ req = [handler |-> "none"]
    /\ resp = Resp("ok", "none", None)

NextDash ==
    \/ SeedData
    \/ \E f \in ShopOrderForms :
          OrdersPost(f) /\ RowIdsWithin(orders', MaxShopOrderRowId)
    \/ \E i \in CustomerDeleteIds : CustomersPost(CustomerDeleteButton(i))
    \/ Dashboard

SpecDash == InitDash /\ [][NextDash]_vars

---------------------------------------------------------------------------
(* The dashboard over amounts of every size: a session that books orders  *)
(* from the add form (a refund, nothing, the largest amount the column    *)
(* holds, the amount after it), deletes orders and opens the dashboard.   *)

SalesOrderForms ==
    {[order_id |-> None, method |-> None] @@ [OrderFilled EXCEPT !.amount = Some(a)] :
        a \in { <<"-", "9", "0", "0", "0">>, <<>>, Int64Max, MagAdd(Int64Max, <<"1">>) }}
    \cup {OrderDeleteButton(i) : i \in OrderDeleteIds}

MaxSalesOrderRowId == 4

InitSales ==
    /\ customers = {}
    /\ orders = {}
    /\ followups = {}
    /\ phase = "boot"
    /\ client = "sales"
    /\ req = [handler |-> "none"]
    /\ resp = Resp("ok", "none", None)

NextSales ==
    \/ SeedData
    \/ \E f \in SalesOrderForms :
          OrdersPost(f) /\ RowIdsWithin(orders', MaxSalesOrderRowId)
    \/ Dashboard

SpecSales == InitSales /\ [][NextSales]_vars

---------------------------------------------------------------------------
(* The list pages: GET /customers, GET /orders and GET /followups render  *)
(* the rows of one query.  A query ordered by a column leaves the order   *)
(* of rows with equal values to the database, so a listing is any of the  *)
(* orderings the ORDER BY admits.                                         *)

\* Sort keys: (0, v) for a value and (1, 0) for NULL under NULLS LAST;
\* DESC negates the value.  SQLite puts NULL first under ASC and last
\* under DESC.
RECURSIVE OrderedBy(_, _)
OrderedBy(key, rows) ==
    IF rows = {} THEN {<<>>}
    ELSE UNION {{<<r>> \o rest : rest \in OrderedBy(key, rows \ {r})} :
                   r \in {x \in rows : \A y \in rows :
                              \/ key[x][1] < key[y][1]
                              \/ key[x][1] = key[y][1] /\ key[x][2] <= key[y][2]}}

\* Customer.query.order_by(Customer.id.desc()).all()
CustomerRows == OrderedBy([r \in customers |-> <<0, 0 - r.id>>], customers)

OrderRows_ByRowId == OrderedBy([r \in orders |-> <<0, 0 - r.id>>], orders)

\* Order.query.order_by(Order.date.desc()).all()
OrderRows ==
    OrderedBy([r \in orders |->
                  IF r.date = None THEN <<1, 0>> ELSE <<0, 0 - Val(r.date)>>],
              orders)

\* FollowUp.query.order_by(FollowUp.next_date.asc().nulls_last()).all()
FollowUpRows ==
    OrderedBy([r \in followups |->
                  IF r.next_date = None THEN <<1, 0>> ELSE <<0, Val(r.next_date)>>],
              followups)

\* GET /customers
ListCustomers ==
    /\ phase = "serving"
    /\ req' = [handler |-> "customers", method |-> "GET"]
    /\ \E rows \in CustomerRows : resp' = [rows |-> rows] @@ Resp("200", "list", None)
    /\ UNCHANGED <<customers, orders, followups, phase, client>>

\* GET /orders
ListOrders ==
    /\ phase = "serving"
    /\ req' = [handler |-> "orders", method |-> "GET"]
    /\ \E rows \in OrderRows : resp' = [rows |-> rows] @@ Resp("200", "list", None)
    /\ UNCHANGED <<customers, orders, followups, phase, client>>

\* GET /followups
ListFollowUps ==
    /\ phase = "serving"
    /\ req' = [handler |-> "followups", method |-> "GET"]
    /\ \E rows \in FollowUpRows : resp' = [rows |-> rows] @@ Resp("200", "list", None)
    /\ UNCHANGED <<customers, orders, followups, phase, client>>

---------------------------------------------------------------------------
(* The pages over a varied store: one session books orders of several     *)
(* months and saree types (the type left out, left blank, typed           *)
(* "Unknown", a seeded type), deletes customers, restarts the process and *)
(* opens the dashboard and the lists; another logs follow-ups with and    *)
(* without a next date and opens their list.                              *)

\* the add form with the (date, saree_type) of the orders booked
ViewOrderForms ==
    {[order_id |-> None, method |-> None, date |-> s[1],
      customer_id |-> Some(C001), saree_type |-> s[2],
      amount |-> Some(<<"3", "0", "0">>),
      payment_status |-> Some(Pending), delivery_status |-> Some(Pending),
      remarks |-> Some(<<>>)] : s \in
    { <<Some(<<>>), None>>,
      <<Some(<<"2", "0", "2", "3", "-", "0", "2", "-", "1", "0">>), Some(<<>>)>>,
      <<Some(<<"2", "0", "2", "4", "-", "0", "2", "-", "1", "4">>), Some(Unknown)>>,
      <<Some(<<"2", "0", "2", "4", "-", "0", "1", "-", "3", "1", "T", "0", "9", ":", "3", "0">>),
        Some(<<"B", "a", "n", "a", "r", "a", "s", "i">>)>> }}

MaxViewOrderRowId == 5

\* the add form with the next_date of the follow-ups logged, and the
\* delete button
ViewFollowUpForms ==
    {[fu_id |-> None, method |-> None] @@ [FollowUpFilled EXCEPT !.next_date = Some(d)] :
        d \in { <<>>, <<"2", "0", "2", "4", "-", "0", "3", "-", "1", "0">>,
                 <<"2", "0", "2", "4", "-", "0", "3", "-", "1", "7">> }}
    \cup {FollowUpDeleteButton(i) : i \in FollowUpDeleteIds}

MaxViewFollowUpRowId == 4

InitViews ==
    /\ customers = {}
    /\ orders = {}
    /\ followups = {}
    /\ phase = "boot"
    /\ client \in {"charts", "calls"}
    /\ req = [handler |-> "none"]
    /\ resp = Resp("ok", "none", None)

NextViews ==
    \/ SeedData
    \/ Restart
    \/ \E f \in ViewOrderForms :
          client = "charts" /\ OrdersPost(f) /\ RowIdsWithin(orders', MaxViewOrderRowId)
    \/ \E i \in CustomerDeleteIds :
          client = "charts" /\ CustomersPost(CustomerDeleteButton(i))
    \/ client = "charts" /\ Dashboard
    \/ client = "charts" /\ ListCustomers
    \/ client = "charts" /\ ListOrders
    \/ \E f \in ViewFollowUpForms :
          client = "calls" /\ FollowUpsPost(f) /\ RowIdsWithin(followups', MaxViewFollowUpRowId)
    \/ client = "calls" /\ ListFollowUps

SpecViews == InitViews /\ [][NextViews]_vars

---------------------------------------------------------------------------
(* Two requests at once.  The development server answers each request on  *)
(* a thread of its own, so the statements of two POSTs to /customers       *)
(* interleave: the generator's query, the lookup and the commit of one    *)
(* request each see the rows committed so far.  Here req holds, per       *)
(* thread, the request in progress and what it has read.                  *)

Workers == {1, 2}

Other(w) == 3 - w

Threads == IF "threads" \in DOMAIN req THEN req.threads ELSE [w \in Workers |-> [pc |-> "idle", overlap |-> FALSE]]

\* the columns the update branch assigns
CustomerFields == {"name", "insta", "phone", "city", "ctype", "notes"}

\* The unit of work emits UPDATE ... SET for the attributes whose assigned
\* value differs from the loaded one.
ChangedColumns(loaded, form) ==
    {f \in CustomerFields : CustomerUpdated(loaded, form)[f] # loaded[f]}

\* UPDATE customer SET <changed columns> WHERE customer.id = <rowid>
UpdateColumns(table, loaded, form) ==
    {IF r.id = loaded.id
     THEN [f \in DOMAIN r |-> IF f \in ChangedColumns(loaded, form)
                              THEN CustomerUpdated(loaded, form)[f] ELSE r[f]]
     ELSE r : r \in table}

\* a thread's record after its request has ended
Ended(t, status, branch) == [t EXCEPT !.pc = "done", !.status = status, !.branch = branch]

\* a commit that changed the table: requests in progress have read rows
\* that are no longer the stored ones; this request committed last
Committed(w, t) ==
    [v \in Workers |->
        IF v = w THEN [t EXCEPT !.last = TRUE]
        ELSE IF Threads[v].pc \in {"resolved", "looked"}
             THEN [Threads[v] EXCEPT !.disturbed = TRUE, !.last = FALSE]
        ELSE IF Threads[v].pc = "done" THEN [Threads[v] EXCEPT !.last = FALSE]
        ELSE Threads[v]]

\* cid = request.form.get('customer_id') or next_customer_id()
RaceGenerate(w, form) ==
    /\ phase = "serving"
    /\ Threads[w].pc \in {"idle", "done"}
    /\ LET t == [pc |-> "resolved", form |-> form, cid |-> None, existing |-> {},
                 status |-> "none", branch |-> "none",
                 overlap |-> FALSE, disturbed |-> FALSE, last |-> FALSE]
           others == [Threads[Other(w)] EXCEPT !.overlap = FALSE]
       IN  IF ~Truthy(form.customer_id) /\ ~next_customer_id_ok
           THEN /\ req' = [handler |-> "customers",
                           threads |-> (w :> Ended(t, "500", "ValueError"))
                                           @@ (Other(w) :> others)]
                /\ resp' = Resp("500", "ValueError", None)
           ELSE \E cid \in {OrElse(form.customer_id, next_customer_id)} :
                /\ req' = [handler |-> "customers",
                           threads |-> (w :> [t EXCEPT !.cid = Some(cid)])
                                           @@ (Other(w) :> others)]
                /\ resp' = Resp("none", "generate", Some(cid))
    /\ UNCHANGED <<customers, orders, followups, phase, client>>

\* existing = Customer.query.filter_by(customer_id=cid).first()
RaceLookup(w) ==
    /\ phase = "serving"
    /\ Threads[w].pc = "resolved"
    /\ LET t == Threads[w]
           o == Threads[Other(w)]
       IN  /\ req' = [req EXCEPT !.threads[w] =
                        [t EXCEPT !.pc = "looked",
                                  !.existing = {r \in customers : r.customer_id = Val(t.cid)},
                                  !.overlap = /\ o.pc = "looked"
                                              /\ ~o.disturbed
                                              /\ ~t.disturbed]]
           /\ resp' = Resp("none", "lookup", t.cid)
    /\ UNCHANGED <<customers, orders, followups, phase, client>>

\* the branch of the handler and its commit
RaceCommit(w) ==
    /\ phase = "serving"
    /\ Threads[w].pc = "looked"
    /\ UNCHANGED <<orders, followups, phase, client>>
    /\ LET t == Threads[w]
           form == t.form
           branch == WriteBranch(t.existing, form.method)
           finish(status, name) ==
               /\ req' = [req EXCEPT !.threads[w] = Ended(t, status, name)]
               /\ resp' = Resp(status, name, t.cid)
               /\ UNCHANGED customers
           write(status, name, table) ==
               /\ req' = [req EXCEPT !.threads = Committed(w, Ended(t, status, name))]
               /\ resp' = Resp(status, name, t.cid)
               /\ customers' = table
       IN  IF branch = "update"
           THEN \E loaded \in t.existing :
                IF form.name = None THEN finish("400", "KeyError")
                ELSE IF ChangedColumns(loaded, form) = {} THEN finish("302", "update")
                ELSE IF \A r \in customers : r.id # loaded.id
                THEN finish("500", "StaleDataError")
                ELSE write("302", "update", UpdateColumns(customers, loaded, form))
           ELSE IF branch = "delete"
           THEN \E loaded \in t.existing :
                IF \A r \in customers : r.id # loaded.id THEN finish("302", "delete")
                ELSE write("302", "delete", {r \in customers : r.id # loaded.id})
           ELSE IF branch = "insert"
           THEN IF form.name = None THEN finish("400", "KeyError")
                ELSE IF ~UniqueOk(CustomerIds, <<Val(t.cid)>>) THEN finish("500", "IntegrityError")
                ELSE write("302", "insert",
                           InsertAll(customers, <<CustomerNew(Val(t.cid), form)>>))
           ELSE finish("200", "list")

\* the edit form of a row as the page fills it in
EditFormOf(row) ==
    [customer_id |-> Some(row.customer_id), method |-> Some(PUT),
     name |-> Some(row.name), insta |-> row.insta, phone |-> row.phone,
     city |-> row.city, ctype |-> row.ctype, notes |-> row.notes]

\* the add form without and with an id, the delete button of C001, and the
\* edit form of C002 with the name or the phone changed
RaceForms ==
    { [customer_id |-> i, method |-> None, name |-> Some(<<"A", "s", "h", "a">>),
       insta |-> Some(<<>>), phone |-> Some(<<>>), city |-> Some(<<>>),
       ctype |-> Some(<<"N", "e", "w">>), notes |-> Some(<<>>)] :
          i \in {Some(<<>>), Some(C001)} }
    \cup
    { CustomerDeleteButton(C001),
      [EditFormOf(SeedCustomers[2]) EXCEPT !.name = Some(<<"A", "s", "h", "a">>)],
      [EditFormOf(SeedCustomers[2]) EXCEPT !.name = Some(<<"B", "i", "n", "a">>)],
      [EditFormOf(SeedCustomers[2]) EXCEPT !.phone = Some(<<"9", "8">>)] }

MaxRaceCustomerRowId == 4

InitRace ==
    /\ customers = {}
    /\ orders = {}
    /\ followups = {}
    /\ phase = "boot"
    /\ client = "threads"
    /\ req = [handler |-> "none"]
    /\ resp = Resp("ok", "none", None)

NextRace ==
    \/ SeedData
    \/ \E w \in Workers, f \in RaceForms : RaceGenerate(w, f)
    \/ \E w \in Workers : RaceLookup(w)
    \/ \E w \in Workers : RaceCommit(w) /\ RowIdsWithin(customers', MaxRaceCustomerRowId)

SpecRace == InitRace /\ [][NextRace]_vars

---------------------------------------------------------------------------
(* Claims *)

\* C1: no two rows of one table share a public id (customer_id among the
\* customers, order_id among the orders, fu_id among the follow-ups), after
\* any sequence of seed, create, update and delete requests.
C1_UniquePublicIds ==
    /\ \A r, q \in customers : r.customer_id = q.customer_id => r = q
    /\ \A r, q \in orders : r.order_id = q.order_id => r = q
    /\ \A r, q \in followups : r.fu_id = q.fu_id => r = q

\* C1 witness: the seed step has run again on a store whose Customer table
\* was emptied while the seeded orders stayed, and was stopped by the
\* unique constraint.
C1_Witness ==
    /\ req.handler = "seed_data"
    /\ resp.status = "IntegrityError"
    /\ customers = {}
    /\ \E r \in orders : r.order_id = O001

\* the public id the claims expect of the identifier generator: the prefix
\* and one more than the largest numeric suffix in the table, zero-padded
\* to 3 digits; the base id on an empty table
ExpectedNextId(ids, prefix) ==
    IF ids = {} THEN <<prefix, "0", "0", "1">>
    ELSE <<prefix>> \o
         ZeroPad(NatStr(Max({IntOf(lstrip(i, prefix)) : i \in ids}) + 1), 3)

\* a create request that omits the public id, answered without an error
CreateWithoutId(handler, idField) ==
    /\ req'.handler = handler
    /\ ~Truthy(req'.form[idField])
    /\ req'.form.method = None
    /\ resp'.status \notin {"400", "500"}

\* the table gained exactly one row, and it carries the public id `id`
StoredNew(old, new, idField, id) ==
    \E r \in new : /\ r \notin old
                   /\ new = old \cup {r}
                   /\ r[idField] = id

\* C2 (as stated; refuted): a create request that omits the public id
\* stores a new row whose id is the prefix plus one more than the largest
\* numeric suffix now in the table, zero-padded to 3 digits (the base id
\* C001 / O001 / F001 on an empty table).
C2_NextIdIsMaxPlusOne ==
    [][ /\ CreateWithoutId("customers", "customer_id") =>
             StoredNew(customers, customers', "customer_id",
                       ExpectedNextId(CustomerIds, "C"))
        /\ CreateWithoutId("orders", "order_id") =>
             StoredNew(orders, orders', "order_id", ExpectedNextId(OrderIds, "O"))
        /\ CreateWithoutId("followups", "fu_id") =>
             StoredNew(followups, followups', "fu_id",
                       ExpectedNextId(FollowUpIds, "F")) ]_vars

\* an update-flagged POST that names the public id of an existing row and
\* is answered with the redirect
UpdateOfExisting(handler, idField, ids) ==
    /\ req'.handler = handler
    /\ req'.form.method = Some(PUT)
    /\ Truthy(req'.form[idField])
    /\ Val(req'.form[idField]) \in ids
    /\ resp'.status = "302"

\* the row of public id `id` is replaced by one that keeps the rowid and
\* the public id and has the values `fields`; every other row stays
RowReplaced(old, new, idField, id, fields) ==
    \E r \in old :
        /\ r[idField] = id
        /\ new = (old \ {r}) \cup {fields @@ [id |-> r.id] @@ [f \in {idField} |-> id]}

\* the date a submitted ISO text names
DateNamed(text) ==
    DayNumber(DigitsVal(SubSeq(text, 1, 4)), DigitsVal(SubSeq(text, 6, 7)),
              DigitsVal(SubSeq(text, 9, 10)))

\* the integer a submitted decimal text names
IntNamed(text) ==
    LET digits == IF Head(text) \in {"-", "+"} THEN Tail(text) ELSE text
        first == IF \E i \in 1..Len(digits) : digits[i] # "0"
                 THEN CHOOSE i \in 1..Len(digits) :
                          digits[i] # "0" /\ \A j \in 1..(i - 1) : digits[j] = "0"
                 ELSE Len(digits)
        significant == SubSeq(digits, first, Len(digits))
    IN  IF Head(text) = "-" /\ significant # <<"0">>
        THEN <<"-">> \o significant ELSE significant

\* what the update of a customer stores, for C3 as stated and as amended
CustomerSubmitted(f) ==
    [name |-> Val(f.name), insta |-> f.insta, phone |-> f.phone, city |-> f.city,
     ctype |-> f.ctype, notes |-> f.notes]

\* what C3 as stated expects an order update to store: a blank date and a
\* blank amount are stored as empty
OrderSubmittedBlankEmpty(f) ==
    [date |-> IF Truthy(f.date) THEN Some(DateNamed(Val(f.date))) ELSE None,
     customer_id |-> Val(f.customer_id),
     saree_type |-> f.saree_type,
     amount |-> IF Truthy(f.amount) THEN Some(IntNamed(Val(f.amount))) ELSE None,
     payment_status |-> f.payment_status,
     delivery_status |-> f.delivery_status,
     remarks |-> f.remarks]

FollowUpSubmittedBlankEmpty(f) ==
    [date |-> IF Truthy(f.date) THEN Some(DateNamed(Val(f.date))) ELSE None,
     customer_name |-> f.customer_name,
     insta |-> f.insta,
     topic |-> f.topic,
     next_date |-> IF Truthy(f.next_date) THEN Some(DateNamed(Val(f.next_date)))
                   ELSE None,
     status |-> f.status,
     remarks |-> f.remarks]

\* C3 (as stated; refuted): after an update-flagged POST that names an
\* existing row, the row holds exactly the submitted value of every
\* form-controlled field, a blank field (also a blank order date and a
\* blank amount) being stored as empty; it keeps its public id and every
\* other row is unchanged.
C3_UpdateStoresSubmittedBlankAsEmpty ==
    [][ /\ UpdateOfExisting("customers", "customer_id", CustomerIds) =>
             RowReplaced(customers, customers', "customer_id",
                         Val(req'.form.customer_id), CustomerSubmitted(req'.form))
        /\ UpdateOfExisting("orders", "order_id", OrderIds) =>
             RowReplaced(orders, orders', "order_id", Val(req'.form.order_id),
                         OrderSubmittedBlankEmpty(req'.form))
        /\ UpdateOfExisting("followups", "fu_id", FollowUpIds) =>
             RowReplaced(followups, followups', "fu_id", Val(req'.form.fu_id),
                         FollowUpSubmittedBlankEmpty(req'.form)) ]_vars

\* the day a request is served on
RequestDay == Today

\* what C3 as amended expects: a blank or missing date is stored as the
\* day of the request, a blank or missing amount as 0, a blank or missing
\* next_date as null
OrderSubmitted(f) ==
    [OrderSubmittedBlankEmpty(f) EXCEPT
        !.date = IF Truthy(f.date) THEN Some(DateNamed(Val(f.date)))
                 ELSE Some(RequestDay),
        !.amount = IF Truthy(f.amount) THEN Some(IntNamed(Val(f.amount)))
                   ELSE Some(<<"0">>)]

FollowUpSubmitted(f) ==
    [FollowUpSubmittedBlankEmpty(f) EXCEPT
        !.date = IF Truthy(f.date) THEN Some(DateNamed(Val(f.date)))
                 ELSE Some(RequestDay)]

\* an edit-form fetch answered with the form
EditFetched(handler) == req'.handler = handler /\ resp'.status = "200"

\* C3 (amended): after an update-flagged POST that names an existing row
\* and is answered with the redirect, the row holds the submitted value of
\* every text field (a blank field as the empty string, a missing key as
\* null), the date named by a submitted date text and the integer named by
\* a submitted amount; a blank or missing date is stored as the day of the
\* request, a blank or missing amount as 0 and a blank or missing next_date
\* as null.  The row keeps its rowid and public id, every other row is
\* unchanged, and an edit-form fetch returns the stored row.
C3_UpdateStoresSubmitted ==
    [][ /\ UpdateOfExisting("customers", "customer_id", CustomerIds) =>
             RowReplaced(customers, customers', "customer_id",
                         Val(req'.form.customer_id), CustomerSubmitted(req'.form))
        /\ UpdateOfExisting("orders", "order_id", OrderIds) =>
             RowReplaced(orders, orders', "order_id", Val(req'.form.order_id),
                         OrderSubmitted(req'.form))
        /\ UpdateOfExisting("followups", "fu_id", FollowUpIds) =>
             RowReplaced(followups, followups', "fu_id", Val(req'.form.fu_id),
                         FollowUpSubmitted(req'.form))
        /\ EditFetched("edit_customer") =>
             resp'.row \in customers /\ resp'.row.customer_id = req'.id
        /\ EditFetched("edit_order") =>
             resp'.row \in orders /\ resp'.row.order_id = req'.id
        /\ EditFetched("edit_followup") =>
             resp'.row \in followups /\ resp'.row.fu_id = req'.id ]_vars

\* C3 witness: an order update with a blank date and a blank amount was
\* stored.
C3_Witness ==
    /\ req.handler = "orders"
    /\ resp.branch = "update"
    /\ req.form.date = Some(<<>>)
    /\ req.form.amount = Some(<<>>)
    /\ \E r \in orders : /\ r.order_id = Val(resp.id)
                         /\ r.date = Some(Today)
                         /\ r.amount = Some(<<"0">>)

\* a delete-flagged POST that names the public id of an existing row
DeleteOfExisting(handler, idField, ids) ==
    /\ req'.handler = handler
    /\ req'.form.method = Some(DELETE)
    /\ Truthy(req'.form[idField])
    /\ Val(req'.form[idField]) \in ids

\* exactly the row of public id `id` is gone
RowRemoved(old, new, idField, id) ==
    /\ \E r \in old : r[idField] = id /\ new = old \ {r}
    /\ \A r \in new : r[idField] # id

\* an edit-form fetch answers Not-Found exactly when no row has the id
EditNotFoundIffAbsent ==
    /\ req'.handler = "edit_customer" =>
         /\ resp'.status \in {"200", "404"}
         /\ resp'.status = "404" <=> req'.id \notin CustomerIds
    /\ req'.handler = "edit_order" =>
         /\ resp'.status \in {"200", "404"}
         /\ resp'.status = "404" <=> req'.id \notin OrderIds
    /\ req'.handler = "edit_followup" =>
         /\ resp'.status \in {"200", "404"}
         /\ resp'.status = "404" <=> req'.id \notin FollowUpIds

\* the edit-form fetch issued right after a delete, for the deleted id
EditAfterDelete(handler, editHandler) ==
    /\ req.handler = handler
    /\ resp.branch = "delete"
    /\ req'.handler = editHandler
    /\ Some(req'.id) = resp.id

\* C4 (as stated; refuted): a delete-flagged POST naming the public id of
\* an existing row removes exactly that row, for every entity; an edit-form
\* fetch for that id issued next returns Not-Found; an edit-form fetch
\* returns Not-Found exactly when no row with the id exists.
C4_DeleteAlwaysRemoves ==
    [][ /\ DeleteOfExisting("customers", "customer_id", CustomerIds) =>
             RowRemoved(customers, customers', "customer_id",
                        Val(req'.form.customer_id))
        /\ DeleteOfExisting("orders", "order_id", OrderIds) =>
             RowRemoved(orders, orders', "order_id", Val(req'.form.order_id))
        /\ DeleteOfExisting("followups", "fu_id", FollowUpIds) =>
             RowRemoved(followups, followups', "fu_id", Val(req'.form.fu_id))
        /\ EditNotFoundIffAbsent ]_vars

\* the date field of an order form, and the next_date field of a follow-up
\* form, is blank, missing or an ISO date
OrderDateParses(f) == ~Truthy(f.date) \/ fromisoformatOk(Val(f.date))
FollowUpNextDateParses(f) == ~Truthy(f.next_date) \/ fromisoformatOk(Val(f.next_date))

\* C4 (amended): a delete-flagged POST naming the public id of an existing
\* row removes exactly that row and answers with the redirect, provided -
\* for /orders - its date field and - for /followups - its next_date field
\* is blank, missing or a well-formed ISO date; otherwise the request fails
\* with a server error and removes nothing.  An edit-form fetch for the
\* deleted id issued next returns Not-Found, and an edit-form fetch returns
\* Not-Found exactly when no row with the id exists.
C4_DeleteRemoves ==
    [][ /\ DeleteOfExisting("customers", "customer_id", CustomerIds) =>
             /\ RowRemoved(customers, customers', "customer_id",
                           Val(req'.form.customer_id))
             /\ resp'.status = "302"
        /\ DeleteOfExisting("orders", "order_id", OrderIds) =>
             IF OrderDateParses(req'.form)
             THEN /\ RowRemoved(orders, orders', "order_id", Val(req'.form.order_id))
                  /\ resp'.status = "302"
             ELSE orders' = orders /\ resp'.status = "500"
        /\ DeleteOfExisting("followups", "fu_id", FollowUpIds) =>
             IF FollowUpNextDateParses(req'.form)
             THEN /\ RowRemoved(followups, followups', "fu_id", Val(req'.form.fu_id))
                  /\ resp'.status = "302"
             ELSE followups' = followups /\ resp'.status = "500"
        /\ EditAfterDelete("customers", "edit_customer") => resp'.status = "404"
        /\ EditAfterDelete("orders", "edit_order") => resp'.status = "404"
        /\ EditAfterDelete("followups", "edit_followup") => resp'.status = "404"
        /\ EditNotFoundIffAbsent ]_vars

\* C4 witness: the edit form of a seeded customer was fetched after its
\* delete and answered Not-Found.
C4_Witness ==
    /\ req.handler = "edit_customer"
    /\ req.id = C002
    /\ resp.status = "404"
    /\ C002 \notin CustomerIds

\* a create request (no operation flag) whose caller-supplied public id is
\* the id of an existing row
CreateWithExistingId(handler, idField, ids) ==
    /\ req'.handler = handler
    /\ req'.form.method = None
    /\ Truthy(req'.form[idField])
    /\ Val(req'.form[idField]) \in ids

\* C5 (as stated; refuted): a create request whose caller-supplied public
\* id equals the id of an existing row ends in a unique-constraint failure
\* reported as a server error.
C5_DuplicateCreateFails ==
    [][ ( \/ CreateWithExistingId("customers", "customer_id", CustomerIds)
            \/ CreateWithExistingId("orders", "order_id", OrderIds)
            \/ CreateWithExistingId("followups", "fu_id", FollowUpIds) )
          => resp'.status = "500" /\ resp'.branch = "IntegrityError" ]_vars

\* the request wrote nothing and was answered with the list page
ListPageNoWrite ==
    /\ UNCHANGED <<customers, orders, followups>>
    /\ resp'.status = "200"
    /\ resp'.branch = "list"

\* the request wrote nothing and failed on a value that does not parse
ParseFailureNoWrite ==
    /\ UNCHANGED <<customers, orders, followups>>
    /\ resp'.status = "500"
    /\ resp'.branch = "ValueError"

\* C5 (amended): a create request whose caller-supplied public id equals
\* the id of an existing row attempts no insert and meets no
\* unique-constraint failure: the handler finds the row, runs none of its
\* write branches, leaves the store unchanged and answers 200 with the list
\* page (on /orders and /followups only when the date, resp. next_date,
\* field parses; otherwise the request fails on the parse, not on the
\* constraint).
C5_DuplicateCreateIgnored ==
    [][ /\ CreateWithExistingId("customers", "customer_id", CustomerIds) =>
             ListPageNoWrite
        /\ CreateWithExistingId("orders", "order_id", OrderIds) =>
             IF OrderDateParses(req'.form) THEN ListPageNoWrite
             ELSE ParseFailureNoWrite
        /\ CreateWithExistingId("followups", "fu_id", FollowUpIds) =>
             IF FollowUpNextDateParses(req'.form) THEN ListPageNoWrite
             ELSE ParseFailureNoWrite ]_vars

\* C5 witness: a customer create naming the id of a stored row was
\* answered with the list page.
C5_Witness ==
    /\ req.handler = "customers"
    /\ req.form.method = None
    /\ req.form.customer_id = Some(C001)
    /\ resp.status = "200"
    /\ resp.branch = "list"
    /\ C001 \in CustomerIds

\* a POST to `handler` that completed without an error
PostCompleted(handler) ==
    /\ req'.handler = handler
    /\ resp'.status \notin {"400", "500"}

\* the rows of the table before and after hold the same public ids, and
\* only the row of public id `id` may differ
OnlyRowChanged(old, new, idField, id) ==
    /\ {r[idField] : r \in old} = {r[idField] : r \in new}
    /\ Cardinality(old) = Cardinality(new)
    /\ \A r \in old : r[idField] # id => r \in new

\* C6 (as stated; refuted): a POST that completes without an error applies
\* exactly one of the write branches, commits it and answers with a
\* redirect; when neither the update nor the delete branch applies, a new
\* row is inserted.
C6_PostAlwaysWrites ==
    [][ /\ PostCompleted("customers") =>
             /\ resp'.status = "302"
             /\ resp'.branch \in {"update", "delete", "insert"}
             /\ resp'.branch \notin {"update", "delete"} =>
                    Cardinality(customers') = Cardinality(customers) + 1
        /\ PostCompleted("orders") =>
             /\ resp'.status = "302"
             /\ resp'.branch \in {"update", "delete", "insert"}
             /\ resp'.branch \notin {"update", "delete"} =>
                    Cardinality(orders') = Cardinality(orders) + 1
        /\ PostCompleted("followups") =>
             /\ resp'.status = "302"
             /\ resp'.branch \in {"update", "delete", "insert"}
             /\ resp'.branch \notin {"update", "delete"} =>
                    Cardinality(followups') = Cardinality(followups) + 1 ]_vars

\* what C6 as amended says of one table: `old` and `new` are the table
\* before and after, `id` the public id the handler resolved, `flag` the
\* flag sent
PostOutcome(old, new, idField, id, flag) ==
    IF id \in {r[idField] : r \in old}
    THEN IF flag = Some(PUT)
         THEN /\ resp'.status = "302" /\ resp'.branch = "update"
              /\ OnlyRowChanged(old, new, idField, id)
         ELSE IF flag = Some(DELETE)
         THEN /\ resp'.status = "302" /\ resp'.branch = "delete"
              /\ RowRemoved(old, new, idField, id)
         ELSE /\ resp'.status = "200" /\ resp'.branch = "list"
              /\ new = old
    ELSE /\ resp'.status = "302" /\ resp'.branch = "insert"
         /\ StoredNew(old, new, idField, id)

\* C6 (amended): a POST that completes without an error either applies
\* exactly one of the write branches, commits it and answers with a
\* redirect, or - when a row with the resolved id exists and the flag is
\* neither update nor delete - writes nothing and answers 200 with the list
\* page.  A row is inserted exactly when no row with the resolved id
\* exists, whatever the flag.
C6_PostOutcome ==
    [][ /\ PostCompleted("customers") =>
             PostOutcome(customers, customers', "customer_id", Val(resp'.id),
                         req'.form.method)
        /\ PostCompleted("orders") =>
             PostOutcome(orders, orders', "order_id", Val(resp'.id),
                         req'.form.method)
        /\ PostCompleted("followups") =>
             PostOutcome(followups, followups', "fu_id", Val(resp'.id),
                         req'.form.method) ]_vars

\* C6 witness: the delete button of a follow-up that is no longer stored
\* was pressed, and the request inserted a row.
C6_Witness ==
    /\ req.handler = "followups"
    /\ req.form.method = Some(DELETE)
    /\ resp.status = "302"
    /\ resp.branch = "insert"

\* C7: a write request on one entity's endpoint leaves the other two
\* tables unchanged; deleting a customer leaves every order (also those
\* that name the deleted customer) and every follow-up as it was.
C7_OtherTablesUnchanged ==
    [][ /\ req'.handler = "customers" => UNCHANGED <<orders, followups>>
        /\ req'.handler = "orders" => UNCHANGED <<customers, followups>>
        /\ req'.handler = "followups" => UNCHANGED <<customers, orders>> ]_vars

\* C7 witness: a customer was deleted while an order names it.
C7_Witness ==
    /\ req.handler = "customers"
    /\ resp.branch = "delete"
    /\ Val(resp.id) \notin CustomerIds
    /\ \E o \in orders : o.customer_id = Val(resp.id)

\* C8: the seed step run on a store whose Customer table has a row returns
\* without writing: all three tables are unchanged and the process goes on
\* to serve (so running it again after a successful seed changes nothing).
C8_SeedSkipsNonEmpty ==
    [][ (req'.handler = "seed_data" /\ customers # {}) =>
            /\ UNCHANGED <<customers, orders, followups>>
            /\ resp'.status = "ok"
            /\ phase' = "serving" ]_vars

\* C8 witness: the seed step ran again on a store that requests had reduced
\* to one customer, and skipped.
C8_Witness ==
    /\ req.handler = "seed_data"
    /\ resp.branch = "skip"
    /\ Cardinality(customers) = 1
    /\ Cardinality(orders) = 3

\* the sum of the amounts of the rows with rowid 1..n
RECURSIVE AmountsUpTo(_, _)
AmountsUpTo(rows, n) ==
    IF n = 0 THEN <<"0">>
    ELSE IntAdd(AmountsUpTo(rows, n - 1),
                IF \E r \in rows : r.id = n
                THEN Val((CHOOSE r \in rows : r.id = n).amount) ELSE <<"0">>)

SumOfAmounts(rows) == AmountsUpTo(rows, NextRowId(rows) - 1)

\* q is t / n truncated toward zero (n > 0): q has the sign of t or is 0,
\* and |q| * n <= |t| < (|q| + 1) * n
IsTruncatedQuotient(q, t, n) ==
    /\ IsNeg(q) => IsNeg(t)
    /\ (IsNeg(t) /\ ~IsNeg(q)) => q = <<"0">>
    /\ ~MagLess(Mag(t), MagMul(Mag(q), n))
    /\ MagLess(Mag(t), MagMul(MagAdd(Mag(q), <<"1">>), n))

\* C9: every dashboard request is answered with the page (status 200);
\* total_sales is the sum of the amounts of all orders (0 without orders)
\* and avg_order is total_sales divided by the number of orders, truncated
\* toward zero also for a negative sum, and 0 without orders.
C9_SalesAndAverage ==
    req.handler = "dashboard" =>
         /\ resp.status = "200"
         /\ resp.total_orders = Cardinality(orders)
         /\ resp.total_sales = SumOfAmounts(orders)
         /\ IF orders = {} THEN resp.avg_order = <<"0">>
            ELSE IsTruncatedQuotient(resp.avg_order, SumOfAmounts(orders),
                                     Cardinality(orders))

\* the customer ids the orders name
OrderCustomerIds == {o.customer_id : o \in orders}

SpendOf(cid) == SumOfAmounts({o \in orders : o.customer_id = cid})

Min2(a, b) == IF a <= b THEN a ELSE b

\* C10: the top-customers list has min(5, number of distinct order
\* customer_ids) entries, one per customer_id, in non-increasing order of
\* the summed order amount; no omitted customer_id has a larger sum than an
\* included one; an entry is labelled with the customer's name when a
\* Customer row with the customer_id exists and with the raw customer_id
\* when none does.
C10_TopCustomers ==
    (req.handler = "dashboard" /\ resp.status = "200") =>
        LET t == resp.topc
            q == resp.q3
            shown == {q[i].customer_id : i \in 1..Len(q)}
        IN  /\ Len(t) = Min2(5, Cardinality(OrderCustomerIds))
            /\ Len(q) = Len(t)
            /\ shown \subseteq OrderCustomerIds
            /\ Cardinality(shown) = Len(q)
            /\ \A i \in 1..Len(t) : t[i].amount = SpendOf(q[i].customer_id)
            /\ \A i, j \in 1..Len(t) : i < j => IntLeq(t[j].amount, t[i].amount)
            /\ \A c \in OrderCustomerIds \ shown :
                   \A i \in 1..Len(t) : IntLeq(SpendOf(c), t[i].amount)
            /\ \A i \in 1..Len(t) :
                   IF \E c \in customers : c.customer_id = q[i].customer_id
                   THEN \E c \in customers : /\ c.customer_id = q[i].customer_id
                                             /\ t[i].name = c.name
                   ELSE t[i].name = q[i].customer_id

\* C10 witness: six customer ids have orders, so one is cut off, with equal
\* sums at the cut; one entry shows a deleted customer's raw id and one a
\* customer's name.
C10_Witness ==
    /\ req.handler = "dashboard"
    /\ resp.status = "200"
    /\ Cardinality(OrderCustomerIds) = 6
    /\ Len(resp.topc) = 5
    /\ \E c \in OrderCustomerIds \ {resp.q3[i].customer_id : i \in 1..5} :
           SpendOf(c) = resp.topc[5].amount
    /\ C001 \notin CustomerIds
    /\ \E i \in 1..5 : resp.topc[i].name = C001
    /\ \E i \in 1..5 : \E c \in customers : resp.topc[i].name = c.name

---------------------------------------------------------------------------
\* The label of an order on the saree-type chart
SareeLabel(o) ==
    IF o.saree_type = None \/ o.saree_type = Some(<<>>) THEN Unknown
    ELSE Val(o.saree_type)

\* C11: on a rendered dashboard the saree-type distribution is the count of
\* orders per label (the saree_type, or "Unknown" when it is null or
\* empty): each label appears in exactly one entry, whose count is the
\* number of orders with that label, and the counts sum to the number of
\* orders.
C11_OneEntryPerLabel ==
    (req.handler = "dashboard" /\ resp.status = "200") =>
        LET dist == resp.saree_dist
        IN  /\ {dist[g].type : g \in DOMAIN dist} = {SareeLabel(o) : o \in orders}
            /\ \A g, h \in DOMAIN dist : dist[g].type = dist[h].type => g = h
            /\ \A g \in DOMAIN dist :
                   dist[g].count =
                       Cardinality({o \in orders : SareeLabel(o) = dist[g].type})

\* The year and month an entry of the monthly series names
EntryMonth(entry) ==
    <<DigitsVal(SubSeq(Val(entry.month), 1, 4)), DigitsVal(SubSeq(Val(entry.month), 6, 7))>>

OrderMonth(o) == <<YearOf(Val(o.date)), MonthOf(Val(o.date))>>

\* C12: on a rendered dashboard the monthly series has exactly one entry
\* for each calendar year-month in which an order is dated and none for any
\* other month, the amount of an entry is the sum of the amounts of that
\* month's orders, and the entries are in ascending chronological order.
C12_MonthlySeries ==
    (req.handler = "dashboard" /\ resp.status = "200") =>
        LET m == resp.monthly
        IN  /\ {EntryMonth(m[i]) : i \in 1..Len(m)} = {OrderMonth(o) : o \in orders}
            /\ Len(m) = Cardinality({OrderMonth(o) : o \in orders})
            /\ \A i \in 1..Len(m) :
                   m[i].amount =
                       SumOfAmounts({o \in orders : OrderMonth(o) = EntryMonth(m[i])})
            /\ \A i, j \in 1..Len(m) :
                   i < j => \/ EntryMonth(m[i])[1] < EntryMonth(m[j])[1]
                            \/ /\ EntryMonth(m[i])[1] = EntryMonth(m[j])[1]
                               /\ EntryMonth(m[i])[2] < EntryMonth(m[j])[2]

\* C12 witness: the rendered series has three entries over two years, the
\* same month of both years among them, and one month holds three orders.
C12_Witness ==
    /\ req.handler = "dashboard"
    /\ resp.status = "200"
    /\ Len(resp.monthly) = 3
    /\ \E i, j \in 1..3 : /\ EntryMonth(resp.monthly[i]) = <<2023, 2>>
                          /\ EntryMonth(resp.monthly[j]) = <<2024, 2>>
    /\ \E i \in 1..3 :
           Cardinality({o \in orders : OrderMonth(o) = EntryMonth(resp.monthly[i])}) = 3

\* The rows of a rendered list page hold every row of the table exactly once
ListsEveryRowOnce(rows, table) ==
    /\ Len(rows) = Cardinality(table)
    /\ {rows[i] : i \in 1..Len(rows)} = table

\* C13: a list GET returns every persisted row of its entity exactly once,
\* ordered by descending row id on the customer list, by descending order
\* date on the order list, and by ascending next_date with the rows without
\* a next_date last on the follow-up list.
C13_ListOrder ==
    ("rows" \in DOMAIN resp) =>
        LET rows == resp.rows
        IN  /\ req.handler = "customers" =>
                /\ ListsEveryRowOnce(rows, customers)
                /\ \A i, j \in 1..Len(rows) : i < j => rows[i].id > rows[j].id
            /\ req.handler = "orders" =>
                /\ ListsEveryRowOnce(rows, orders)
                /\ \A i, j \in 1..Len(rows) :
                       i < j => Val(rows[i].date) >= Val(rows[j].date)
            /\ req.handler = "followups" =>
                /\ ListsEveryRowOnce(rows, followups)
                /\ \A i, j \in 1..Len(rows) :
                       i < j => \/ rows[j].next_date = None
                                \/ /\ rows[i].next_date # None
                                   /\ Val(rows[i].next_date) <= Val(rows[j].next_date)

\* C13 witness: an order list of five rows that is not in descending row-id
\* order and shows two orders of the same date, the later-stored one first.
C13_Witness ==
    /\ "rows" \in DOMAIN resp
    /\ req.handler = "orders"
    /\ Len(resp.rows) = 5
    /\ \E i \in 1..4 : /\ resp.rows[i].date = resp.rows[i + 1].date
                       /\ resp.rows[i].id > resp.rows[i + 1].id
    /\ \E i \in 1..4 : resp.rows[i].id < resp.rows[i + 1].id

\* C13 witness for the other lists: a follow-up list with a dated row
\* before an undated one and the undated row stored first.
C13_FollowUpListReached ==
    /\ "rows" \in DOMAIN resp
    /\ req.handler = "followups"
    /\ \E i \in 1..(Len(resp.rows) - 1) :
           /\ resp.rows[i].next_date # None
           /\ resp.rows[i + 1].next_date = None
           /\ resp.rows[i].id > resp.rows[i + 1].id

\* C13 as stated: the order list too is in descending row-id order.
C13_ListByRowId ==
    ("rows" \in DOMAIN resp) =>
        LET rows == resp.rows
        IN  /\ req.handler \in {"customers", "orders"} =>
                /\ ListsEveryRowOnce(rows, IF req.handler = "orders" THEN orders
                                           ELSE customers)
                /\ \A i, j \in 1..Len(rows) : i < j => rows[i].id > rows[j].id
            /\ req.handler = "followups" =>
                /\ ListsEveryRowOnce(rows, followups)
                /\ \A i, j \in 1..Len(rows) :
                       i < j => \/ rows[j].next_date = None
                                \/ /\ rows[i].next_date # None
                                   /\ Val(rows[i].next_date) <= Val(rows[j].next_date)

\* a delete-flagged POST to a page naming a public id has completed
\* without error
DeleteCompleted(handler, idField) ==
    /\ req'.handler = handler
    /\ req'.form.method = Some(DELETE)
    /\ Truthy(req'.form[idField])
    /\ resp'.status \in {"200", "302"}

\* C14: for every entity and every public id X, once a delete-flagged POST
\* for X has completed without error no row with the public id X exists,
\* whether or not such a row existed before the request, so that the same
\* delete sent a second time leaves the store as the first left it.
C14_DeleteIsIdempotent ==
    [][ /\ DeleteCompleted("customers", "customer_id") =>
             \A r \in customers' : r.customer_id # Val(req'.form.customer_id)
        /\ DeleteCompleted("orders", "order_id") =>
             \A r \in orders' : r.order_id # Val(req'.form.order_id)
        /\ DeleteCompleted("followups", "fu_id") =>
             \A r \in followups' : r.fu_id # Val(req'.form.fu_id) ]_vars

\* a submitted text is blank, missing or names an integer / an ISO date
AmountIsInteger(f) == ~Truthy(f.amount) \/ IntOk(Val(f.amount))
FollowUpDateParses(f) == ~Truthy(f.date) \/ fromisoformatOk(Val(f.date))

\* a POST to a page has failed and its form carries a malformed date or
\* next_date, respectively an amount that is not an integer
FailedOnMalformed(handler) ==
    /\ req'.handler = handler
    /\ resp'.status = "500"
    /\ IF handler = "orders"
       THEN ~OrderDateParses(req'.form) \/ ~AmountIsInteger(req'.form)
       ELSE ~FollowUpNextDateParses(req'.form) \/ ~FollowUpDateParses(req'.form)

\* C15: a POST to /orders or /followups that fails because a date or
\* next_date is malformed or because the amount is not an integer leaves
\* the persisted store exactly as it was, also when the failure happens in
\* the update branch after date, customer_id and saree_type of the
\* in-memory row were assigned; what later requests read is the unchanged
\* store.
C15_FailedPostKeepsStore ==
    [][ (FailedOnMalformed("orders") \/ FailedOnMalformed("followups")) =>
            UNCHANGED <<customers, orders, followups>> ]_vars

\* C15 witness: an update of the seeded order O001 carried another date,
\* customer and saree type and an amount that is not an integer; it failed
\* and the stored row has none of the submitted values.
C15_Witness ==
    /\ req.handler = "orders"
    /\ req.form.method = Some(PUT)
    /\ req.form.order_id = Some(O001)
    /\ OrderDateParses(req.form)
    /\ ~AmountIsInteger(req.form)
    /\ resp.status = "500"
    /\ \E r \in orders : /\ r.order_id = O001
                         /\ r.date # Some(DateNamed(Val(req.form.date)))
                         /\ r.saree_type # req.form.saree_type

\* --- C16 ---
\* a thread's request is a create that leaves the public id out
CreatesWithoutId(t) ==
    /\ t.pc # "idle"
    /\ t.form.method = None
    /\ ~Truthy(t.form.customer_id)

\* the two requests at hand both ran their lookup before either committed,
\* with no other commit in between
Interleaved == Threads[1].overlap \/ Threads[2].overlap

BothEnded == Threads[1].pc = "done" /\ Threads[2].pc = "done"

InsertCommitted(t) == t.status = "302" /\ t.branch = "insert"

DuplicateKeyFailure(t) == t.status = "500" /\ t.branch = "IntegrityError"

\* two interleaved requests have both committed an update of one row
BothUpdated ==
    /\ Interleaved
    /\ BothEnded
    /\ \A w \in Workers : /\ Threads[w].status = "302"
                          /\ Threads[w].branch = "update"
    /\ Threads[1].existing = Threads[2].existing
    /\ Threads[1].last \/ Threads[2].last

Later == CHOOSE w \in Workers : Threads[w].last

\* the value a request submitted for a column
Submitted(t, f) == IF f = "name" THEN Val(t.form.name) ELSE t.form[f]

\* C16: when two create requests that leave out the public id interleave
\* so that both run the generator and the lookup before either commits (no
\* other commit in between), both resolve the same id; if no row has that
\* id, exactly one insert commits and the other request ends in a
\* duplicate-key failure; if a row already has it, neither inserts and both
\* are answered with the list page.  In every interleaving the table never
\* holds two rows with the same public id.  After two interleaved updates
\* of one row have committed, each column holds the value submitted with
\* the later commit, or the value of the earlier commit where the later
\* request submitted the value it had read.
C16_RacingWriters ==
    /\ \A r, q \in customers : r.customer_id = q.customer_id => r = q
    /\ (Interleaved /\ \A w \in Workers : CreatesWithoutId(Threads[w])) =>
          /\ Threads[1].cid = Threads[2].cid
          /\ Threads[1].existing = Threads[2].existing
          /\ BothEnded =>
                IF Threads[1].existing = {}
                THEN \E w \in Workers : /\ InsertCommitted(Threads[w])
                                        /\ DuplicateKeyFailure(Threads[Other(w)])
                ELSE \A w \in Workers : /\ Threads[w].status = "200"
                                        /\ ~InsertCommitted(Threads[w])
    /\ BothUpdated =>
          \A loaded \in Threads[Later].existing :
          \A r \in customers :
              r.id = loaded.id =>
                  \A f \in CustomerFields :
                      \/ r[f] = Submitted(Threads[Later], f)
                      \/ /\ Submitted(Threads[Later], f) = loaded[f]
                         /\ r[f] = Submitted(Threads[Other(Later)], f)

\* C16 witness: two creates without an id ran generator and lookup before
\* either committed; one insert committed and the other request ended in
\* the duplicate-key failure.
C16_Witness ==
    /\ Interleaved
    /\ BothEnded
    /\ \A w \in Workers : CreatesWithoutId(Threads[w])
    /\ \E w \in Workers : /\ InsertCommitted(Threads[w])
                          /\ DuplicateKeyFailure(Threads[Other(w)])
    /\ \E r \in customers : Some(r.customer_id) = Threads[1].cid

\* C16, the lost update: two interleaved updates of C002 committed and the
\* name submitted with the earlier commit is gone.
C16_LostUpdateReached ==
    /\ BothUpdated
    /\ Submitted(Threads[1], "name") # Submitted(Threads[2], "name")
    /\ \E r \in customers : /\ r.customer_id = Val(Threads[Later].cid)
                            /\ r.name = Submitted(Threads[Later], "name")

\* C16 as stated: two interleaved creates without an id resolve the same
\* id, at most one insert commits and the other request ends in a
\* duplicate-key failure; the table never holds two rows with the same
\* public id.
C16_RacingWritersAsStated ==
    /\ \A r, q \in customers : r.customer_id = q.customer_id => r = q
    /\ (Interleaved /\ \A w \in Workers : CreatesWithoutId(Threads[w])) =>
          /\ Threads[1].cid = Threads[2].cid
          /\ BothEnded =>
                /\ ~(InsertCommitted(Threads[1]) /\ InsertCommitted(Threads[2]))
                /\ \E w \in Workers : DuplicateKeyFailure(Threads[w])

\* C17: whenever the seed step runs on a store whose Customer table is
\* empty - the fully empty store of the first run, and also a store in
\* which every customer was deleted while orders or follow-ups remain,
\* after a restart - it completes and adds exactly 3 customers, 3 orders
\* and 1 follow-up, never a part of them; the dashboard opened after the
\* seeding of the fully empty store shows total_customers = 3,
\* total_orders = 3, total_sales = 7500, avg_order = 2500,
\* pending_payments = 0, pending_delivery = 0 and pending_followups = 1.
C17_SeedAddsBatch ==
    [][ /\ (req'.handler = "seed_data" /\ customers = {}) =>
              /\ resp'.status = "ok"
              /\ Cardinality(customers') = 3
              /\ customers \subseteq customers'
              /\ Cardinality(orders') = Cardinality(orders) + 3
              /\ orders \subseteq orders'
              /\ Cardinality(followups') = Cardinality(followups) + 1
              /\ followups \subseteq followups'
        /\ ( /\ req.handler = "seed_data"
             /\ resp.branch = "seed"
             /\ Cardinality(orders) = 3
             /\ Cardinality(followups) = 1
             /\ req'.handler = "dashboard" ) =>
              /\ resp'.status = "200"
              /\ resp'.total_customers = 3
              /\ resp'.total_orders = 3
              /\ resp'.total_sales = <<"7", "5", "0", "0">>
              /\ resp'.avg_order = <<"2", "5", "0", "0">>
              /\ resp'.pending_payments = 0
              /\ resp'.pending_delivery = 0
              /\ resp'.pending_followups = 1 ]_vars

===========================================================================
